---- MODULE Spec2Model ----
(***************************************************************************)
(* A model of the maze-optimisation engine of optimal-td-maze-builder:     *)
(* the tile types, the node graph built from a rectangular grid of tiles,  *)
(* the breadth-first distance computations, the map validator, the         *)
(* builder's pre-search reductions and budget, the exhaustive search       *)
(* (NaiveBuilder) and the pruned search (CutoffBuilder).                   *)
(*                                                                         *)
(* Conventions.  A coordinate Coords(x, y) is the pair <<x, y>>.  Python's *)
(* None is NONE for an Optional[int] and NoneDists for an                  *)
(* Optional[Distances].  A dict or list is a sequence in the order the     *)
(* code builds it; a Python set is a set, and wherever the code iterates a *)
(* set in hash order and the order can matter, the model chooses the order *)
(* nondeterministically.                                                   *)
(***************************************************************************)
EXTENDS Integers, Sequences, FiniteSets, TLC

VARIABLES
    map,        \* the input: width, height, tiles, neighbor_count, tower_limit
    pc,         \* where the run is
    verdict,    \* outcome of validate_map: "ok" or the ValidationError message
    ttype,      \* Node.ttype of every node of the graph handed to the builder
    builder,    \* MazeBuilder fields set by __init__
    naive,      \* NaiveBuilder.generate_optimal_mazes: counter and best so far
    cutoff,     \* CutoffBuilder: call stack, processed_coordinates, best so far
    dcmp,       \* two Distances objects and the outcome of comparing them
    bfs,        \* one call of get_shortest_distance_any, statement by statement
    qlearn      \* QLearnBuilder: Q-table, blocked set, position of the agent

vars == <<map, pc, verdict, ttype, builder, naive, cutoff, dcmp, bfs, qlearn>>

NONE == -1
NoneDists == <<NONE>>

(***************************************************************************)
(* Tile types (tiles/tile_type.py).                                        *)
(***************************************************************************)
TTypeBasic == "basic"
TTypeUnbuildable == "unbuildable"
TTypeVoid == "void"
TTypeSpawn == "spawn"
TTypeExit == "exit"
TTypeOccupied == "occupied"
TTypePath == "path"

TTYPES == {TTypeBasic, TTypeUnbuildable, TTypeVoid, TTypeSpawn, TTypeExit,
           TTypeOccupied, TTypePath}

allow_building(t) == t \in {TTypeBasic, TTypePath}
is_traversable(t) == t \in {TTypeBasic, TTypeUnbuildable, TTypeSpawn, TTypeExit, TTypePath}
is_spawn(t) == t = TTypeSpawn
is_exit(t) == t = TTypeExit

(***************************************************************************)
(* Grids and graphs.                                                       *)
(***************************************************************************)
Cells(w, h) == (0 .. w - 1) \X (0 .. h - 1)

\* Window.get_tiles flattens tile_widgets[x, y]: x is the outer index.
CellBefore(c, d) == c[1] < d[1] \/ (c[1] = d[1] /\ c[2] < d[2])

\* The members of S as a sequence in tile order.
RECURSIVE SeqOf(_)
SeqOf(S) ==
    IF S = {} THEN <<>>
    ELSE LET c == CHOOSE x \in S : \A y \in S \ {x} : CellBefore(x, y)
         IN <<c>> \o SeqOf(S \ {c})

Range(s) == {s[i] : i \in 1 .. Len(s)}

SelectSeqIn(s, S) == SelectSeq(s, LAMBDA c : c \in S)

NEIGHBOR_DELTAS(n) ==
    IF n = 4 THEN {<<0, 1>>, <<-1, 0>>, <<1, 0>>, <<0, -1>>}
    ELSE {<<-1, 1>>, <<0, 1>>, <<1, 1>>, <<-1, 0>>, <<1, 0>>, <<-1, -1>>, <<0, -1>>, <<1, -1>>}

\* connect_all_neighboring_nodes: the neighbors of c among the nodes of the dict.
neighbors(c, nodes, n) ==
    {d \in nodes : <<d[1] - c[1], d[2] - c[2]>> \in NEIGHBOR_DELTAS(n)}

(***************************************************************************)
(* Breadth-first distances (utils/graph_algorithms.py).  ty is the current *)
(* Node.ttype of every node, nodes the keys of the node dict, n the        *)
(* neighbor count.  The callers clear the visited flags of every           *)
(* traversable node first (unvisit_nodes / reset_nodes), so a call starts  *)
(* with nothing visited.  A node's neighbor set is iterated in tile order  *)
(* here; BfsSpec below runs the same loop with every iteration order.      *)
(***************************************************************************)

\* An inner loop that does not ask whether the neighbor is traversable.
RECURSIVE sda_neighbors_any(_, _, _, _, _, _, _)
sda_neighbors_any(nbs, node, queue, visited, distance, T, ty) ==
    IF nbs = <<>> THEN [ret |-> NONE, queue |-> queue, visited |-> visited, distance |-> distance]
    ELSE LET neighbor == Head(nbs) IN
         IF neighbor \notin visited
         THEN IF ty[neighbor] = T
              THEN [ret |-> distance[node] + 1, queue |-> queue, visited |-> visited,
                    distance |-> distance]
              ELSE sda_neighbors_any(Tail(nbs), node, Append(queue, neighbor),
                                     visited \cup {neighbor},
                                     [distance EXCEPT ![neighbor] = distance[node] + 1], T, ty)
         ELSE sda_neighbors_any(Tail(nbs), node, queue, visited, distance, T, ty)

\* The inner for loop of get_shortest_distance_any over the neighbors nbs of
\* node: stops with ret = node.distance + 1 at the first unvisited traversable
\* neighbor of type T.
RECURSIVE sda_neighbors(_, _, _, _, _, _, _)
sda_neighbors(nbs, node, queue, visited, distance, T, ty) ==
    IF nbs = <<>> THEN [ret |-> NONE, queue |-> queue, visited |-> visited, distance |-> distance]
    ELSE LET neighbor == Head(nbs) IN
         IF neighbor \notin visited /\ is_traversable(ty[neighbor])
         THEN IF ty[neighbor] = T
              THEN [ret |-> distance[node] + 1, queue |-> queue, visited |-> visited,
                    distance |-> distance]
              ELSE sda_neighbors(Tail(nbs), node, Append(queue, neighbor),
                                 visited \cup {neighbor},
                                 [distance EXCEPT ![neighbor] = distance[node] + 1], T, ty)
         ELSE sda_neighbors(Tail(nbs), node, queue, visited, distance, T, ty)

\* The while loop of get_shortest_distance_any.
RECURSIVE sda_loop(_, _, _, _, _, _, _)
sda_loop(queue, visited, distance, T, ty, nodes, n) ==
    IF queue = <<>> THEN NONE
    ELSE LET node == Head(queue)
             r == sda_neighbors(SeqOf(neighbors(node, nodes, n)), node, Tail(queue),
                                visited, distance, T, ty)
         IN IF r.ret # NONE THEN r.ret
            ELSE sda_loop(r.queue, r.visited, r.distance, T, ty, nodes, n)

get_shortest_distance_any(starting_node, ending_type, ty, nodes, n) ==
    sda_loop(<<starting_node>>, {starting_node}, [c \in nodes |-> 0],
             ending_type, ty, nodes, n)

\* `if not dist`: None and 0 are both falsy.
Falsy(dist) == dist = NONE \/ dist = 0

\* get_distances: one distance per starting node, None as soon as one is missing.
RECURSIVE get_distances(_, _, _, _, _)
get_distances(starting_nodes, ending_type, ty, nodes, n) ==
    IF starting_nodes = <<>> THEN <<>>
    ELSE LET dist == get_shortest_distance_any(Head(starting_nodes), ending_type, ty, nodes, n)
         IN IF Falsy(dist) THEN NoneDists
            ELSE LET rest == get_distances(Tail(starting_nodes), ending_type, ty, nodes, n)
                 IN IF rest = NoneDists THEN NoneDists ELSE <<dist>> \o rest

\* get_maxmin_distance: the loop keeps the greatest distance seen.
RECURSIVE maxmin_loop(_, _, _, _, _, _)
maxmin_loop(starting_nodes, maxmin_distance, ending_type, ty, nodes, n) ==
    IF starting_nodes = <<>> THEN maxmin_distance
    ELSE LET dist == get_shortest_distance_any(Head(starting_nodes), ending_type, ty, nodes, n)
             next == IF Falsy(maxmin_distance) \/ (~Falsy(dist) /\ dist > maxmin_distance)
                     THEN dist ELSE maxmin_distance
         IN maxmin_loop(Tail(starting_nodes), next, ending_type, ty, nodes, n)

get_maxmin_distance(starting_nodes, ending_type, ty, nodes, n) ==
    maxmin_loop(starting_nodes, NONE, ending_type, ty, nodes, n)

(***************************************************************************)
(* Clusters and depth-first probes (utils/graph_algorithms.py).            *)
(***************************************************************************)

\* get_cluster_of_nodes: the unvisited nodes of current_node's type reached
\* from it over neighbors of that type (current_node itself is cluster[0]).
RECURSIVE cluster_grow(_, _, _, _, _, _)
cluster_grow(cluster, frontier, visited, ty, nodes, n) ==
    LET more == {d \in nodes : /\ d \notin cluster
                               /\ d \notin visited
                               /\ \E c \in frontier : /\ d \in neighbors(c, nodes, n)
                                                      /\ ty[d] = ty[c]}
    IN IF more = {} THEN cluster
       ELSE cluster_grow(cluster \cup more, more, visited, ty, nodes, n)

get_cluster_of_nodes(current_node, visited, ty, nodes, n) ==
    cluster_grow({current_node}, {current_node}, visited, ty, nodes, n)

\* The nodes depth_first_search_any_ttype can mark visited before it returns:
\* it never steps onto a node of the ending type, it returns it.
RECURSIVE dfs_grow(_, _, _, _, _, _)
dfs_grow(seen, frontier, ending_ttype, ty, nodes, n) ==
    LET more == {d \in nodes : /\ d \notin seen
                               /\ is_traversable(ty[d])
                               /\ ty[d] # ending_ttype
                               /\ \E c \in frontier : d \in neighbors(c, nodes, n)}
    IN IF more = {} THEN seen
       ELSE dfs_grow(seen \cup more, more, ending_ttype, ty, nodes, n)

\* depth_first_search_any_ttype: the nodes it can return, one for each order
\* in which the neighbor sets can be iterated; {} when it returns None.
depth_first_search_any_ttype(node, ending_ttype, ty, nodes, n) ==
    LET seen == dfs_grow({node}, {node}, ending_ttype, ty, nodes, n)
    IN {d \in nodes \ seen : /\ is_traversable(ty[d])
                             /\ ty[d] = ending_ttype
                             /\ \E c \in seen : d \in neighbors(c, nodes, n)}

(***************************************************************************)
(* Map validation (utils/map_validation.py).                               *)
(***************************************************************************)

\* divide_types keeps the tiles named basic, unbuildable, spawn and exit.
divide_types(tiles) ==
    {c \in DOMAIN tiles :
        tiles[c] \in {TTypeBasic, TTypeUnbuildable, TTypeSpawn, TTypeExit}}

\* validate_route, "Look for spawn clusters": one spawn of each cluster stays.
RECURSIVE spawn_clusters(_, _, _, _, _, _)
spawn_clusters(spawn_nodes_left, current_spawns, visited, ty, nodes, n) ==
    IF spawn_nodes_left = <<>> THEN current_spawns
    ELSE LET node == Head(spawn_nodes_left) IN
         IF node \notin current_spawns
         THEN spawn_clusters(Tail(spawn_nodes_left), current_spawns, visited, ty, nodes, n)
         ELSE LET cluster == get_cluster_of_nodes(node, visited, ty, nodes, n)
              IN spawn_clusters(Tail(spawn_nodes_left),
                                IF Cardinality(cluster) > 1
                                THEN current_spawns \ (cluster \ {node})
                                ELSE current_spawns,
                                visited \cup cluster, ty, nodes, n)

\* The sets found_exits can be after the spawn probes: one exit per spawn of
\* current_spawns; {} when some probe returns None.
RECURSIVE found_exits_choices(_, _, _, _)
found_exits_choices(spawns_left, ty, nodes, n) ==
    IF spawns_left = {} THEN {{}}
    ELSE LET spawn == CHOOSE c \in spawns_left : TRUE
             hits == depth_first_search_any_ttype(spawn, TTypeExit, ty, nodes, n)
             rest == found_exits_choices(spawns_left \ {spawn}, ty, nodes, n)
         IN {r \cup {e} : r \in rest, e \in hits}

\* validate_route, "Look for clusters of found exits": the values current_exits
\* can have after the loop over the set remaining_exits, iterated in any order.
RECURSIVE exit_clusters(_, _, _, _, _, _, _)
exit_clusters(left, current_exits, found_exits, visited, ty, nodes, n) ==
    IF left = {} THEN {current_exits}
    ELSE UNION {
        IF node \notin current_exits
        THEN exit_clusters(left \ {node}, current_exits, found_exits, visited, ty, nodes, n)
        ELSE LET cluster == get_cluster_of_nodes(node, visited, ty, nodes, n) IN
             IF Cardinality(found_exits \ cluster) < Cardinality(found_exits)
             THEN exit_clusters(left \ {node}, current_exits \ cluster,
                                found_exits \cup cluster, visited \cup cluster, ty, nodes, n)
             ELSE IF Cardinality(cluster) > 1
             THEN exit_clusters(left \ {node}, current_exits \ (cluster \ {node}),
                                found_exits, visited \cup cluster, ty, nodes, n)
             ELSE exit_clusters(left \ {node}, current_exits, found_exits,
                                visited \cup cluster, ty, nodes, n)
        : node \in left}

\* validate_route: the ValidationError messages it can raise, "ok" when it
\* returns.
validate_route(tiles, neighbor_count) ==
    LET nodes == divide_types(tiles)
        spawn_nodes == SeqOf({c \in nodes : tiles[c] = TTypeSpawn})
        exit_nodes == {c \in nodes : tiles[c] = TTypeExit}
        current_spawns ==
            IF Len(spawn_nodes) > 1
            THEN spawn_clusters(spawn_nodes, Range(spawn_nodes), {}, tiles, nodes, neighbor_count)
            ELSE Range(spawn_nodes)
        blocked_spawn ==
            \E spawn \in current_spawns :
                depth_first_search_any_ttype(spawn, TTypeExit, tiles, nodes, neighbor_count) = {}
        exit_verdict(found_exits) ==
            LET remaining_exits == exit_nodes \ found_exits
                currents == exit_clusters(remaining_exits, remaining_exits, found_exits, {},
                                          tiles, nodes, neighbor_count)
            IN {IF \E e \in current_exits :
                      depth_first_search_any_ttype(e, TTypeSpawn, tiles, nodes, neighbor_count) = {}
                THEN "an exit is blocked" ELSE "ok" : current_exits \in currents}
    IN IF blocked_spawn THEN {"a spawn is blocked"}
       ELSE UNION {exit_verdict(found_exits) :
                     found_exits \in found_exits_choices(current_spawns, tiles, nodes,
                                                         neighbor_count)}

\* A validate_map that calls validate_exits before validate_spawns.
validate_map_exits_first(tiles, neighbor_count) ==
    LET spawns == {c \in DOMAIN tiles : tiles[c] = TTypeSpawn}
        exits == {c \in DOMAIN tiles : tiles[c] = TTypeExit}
    IN IF ~(Cardinality(exits) > 0) THEN {"not enough exits"}
       ELSE IF ~(Cardinality(spawns) > 0) THEN {"not enough spawns"}
       ELSE validate_route(tiles, neighbor_count)

\* validate_map: validate_spawns, validate_exits, validate_route, in this order;
\* the first that raises ends the call.
validate_map(tiles, neighbor_count) ==
    LET spawns == {c \in DOMAIN tiles : tiles[c] = TTypeSpawn}
        exits == {c \in DOMAIN tiles : tiles[c] = TTypeExit}
    IN IF ~(Cardinality(spawns) > 0) THEN {"not enough spawns"}
       ELSE IF ~(Cardinality(exits) > 0) THEN {"not enough exits"}
       ELSE validate_route(tiles, neighbor_count)

(***************************************************************************)
(* MazeBuilder.__init__ (builders/abstract_builder.py).  The graph is the  *)
(* one Window.create_maze hands over: a node for every tile of the grid,   *)
(* each connected to the tiles at the 4 or 8 offsets.                      *)
(***************************************************************************)
coordinated_traversables(ty) == {c \in DOMAIN ty : is_traversable(ty[c])}
coordinated_unbuildables(ty) ==
    {c \in coordinated_traversables(ty) : ~allow_building(ty[c])}

Remove(seq, c) == SelectSeq(seq, LAMBDA d : d # c)

\* The while loop of clear_single_paths.  hangs: the neighbor ahead is
\* unvisited, no spawn, no exit and not buildable, so no statement of the body
\* changes anything and the loop condition stays true.
RECURSIVE csp_while(_, _, _, _, _, _)
csp_while(current_node, prev_node, st, ty, nodes, n) ==
    IF Cardinality(neighbors(current_node, nodes, n)) # 2 THEN st
    ELSE LET neighbor == CHOOSE d \in neighbors(current_node, nodes, n) : d # prev_node IN
         IF neighbor \in st.visited THEN st
         ELSE IF is_spawn(ty[neighbor]) \/ is_exit(ty[neighbor])
         THEN [st EXCEPT !.visited = @ \cup {neighbor}]
         ELSE IF allow_building(ty[neighbor])
         THEN csp_while(neighbor, current_node,
                        [st EXCEPT !.build = Remove(@, neighbor),
                                   !.removed = Append(@, neighbor),
                                   !.visited = @ \cup {neighbor}],
                        ty, nodes, n)
         ELSE [st EXCEPT !.hangs = TRUE]

\* The for loop of clear_single_paths over spawn_nodes + exit_nodes.
RECURSIVE csp_for(_, _, _, _, _)
csp_for(todo, st, ty, nodes, n) ==
    IF todo = <<>> \/ st.hangs THEN st
    ELSE LET node == Head(todo)
             nbs == neighbors(node, nodes, n)
         IN IF Cardinality(nbs) # 1 THEN csp_for(Tail(todo), st, ty, nodes, n)
            ELSE LET current_node == CHOOSE d \in nbs : TRUE
                     st1 == [st EXCEPT !.visited = @ \cup {node}]
                 IN IF \/ is_spawn(ty[current_node])
                       \/ is_exit(ty[current_node])
                       \/ current_node \in st1.visited
                    THEN csp_for(Tail(todo), st1, ty, nodes, n)
                    ELSE LET st2 == IF allow_building(ty[current_node])
                                    THEN [st1 EXCEPT !.build = Remove(@, current_node),
                                                     !.removed = Append(@, current_node)]
                                    ELSE st1
                             st3 == [st2 EXCEPT !.visited = @ \cup {current_node}]
                         IN csp_for(Tail(todo),
                                    csp_while(current_node, node, st3, ty, nodes, n),
                                    ty, nodes, n)

\* clear_single_paths without its for loop: nothing is removed.
clear_single_paths_skipped(ty, nodes, n) ==
    [build |-> SeqOf({c \in coordinated_traversables(ty) : allow_building(ty[c])}),
     removed |-> <<>>, visited |-> {}, hangs |-> FALSE]

clear_single_paths(ty, nodes, n) ==
    LET trav == coordinated_traversables(ty)
        spawn_nodes == SeqOf({c \in trav : is_spawn(ty[c])})
        exit_nodes == SeqOf({c \in trav : is_exit(ty[c])})
    IN csp_for(spawn_nodes \o exit_nodes,
               [build |-> SeqOf({c \in trav : allow_building(ty[c])}),
                removed |-> <<>>, visited |-> {}, hangs |-> FALSE],
               ty, nodes, n)

Max(S) == CHOOSE x \in S : \A y \in S : y <= x
Min(S) == CHOOSE x \in S : \A y \in S : x <= y

\* get_center_coords: same-type neighbors on both sides on an axis.
get_center_coords(cluster, ty, nodes, n) ==
    {node \in cluster :
        LET same == {d \in neighbors(node, nodes, n) : ty[d] = ty[node]}
            xs == {d[1] : d \in same}
            ys == {d[2] : d \in same}
        IN \/ (Min(xs) < node[1] /\ node[1] < Max(xs))
           \/ (Min(ys) < node[2] /\ node[2] < Max(ys))}

\* get_surrounded_coords: every neighbor has the node's type.
get_surrounded_coords(cluster, ty, nodes, n) ==
    {node \in cluster : \A d \in neighbors(node, nodes, n) : ty[d] = ty[node]}

\* The for loop of clear_redundant_spawns: the redundant spawn coordinates.
RECURSIVE crs_for(_, _, _, _, _, _, _)
crs_for(todo, unvisited_spawn_nodes, redundant, visited, ty, nodes, n) ==
    IF todo = <<>> THEN redundant
    ELSE LET node == Head(todo) IN
         IF node \notin unvisited_spawn_nodes
         THEN crs_for(Tail(todo), unvisited_spawn_nodes, redundant, visited, ty, nodes, n)
         ELSE LET cluster == get_cluster_of_nodes(node, visited, ty, nodes, n) IN
              IF Cardinality(cluster) < 2
              THEN crs_for(Tail(todo), unvisited_spawn_nodes, redundant,
                           visited \cup cluster, ty, nodes, n)
              ELSE crs_for(Tail(todo), unvisited_spawn_nodes \ cluster,
                           redundant \cup get_center_coords(cluster, ty, nodes, n)
                                     \cup get_surrounded_coords(cluster, ty, nodes, n),
                           visited \cup cluster, ty, nodes, n)

clear_redundant_spawns(spawn_nodes, ty, nodes, n) ==
    IF Len(spawn_nodes) < 2 THEN spawn_nodes
    ELSE LET redundant == crs_for(spawn_nodes, Range(spawn_nodes), {}, {}, ty, nodes, n)
         IN SelectSeq(spawn_nodes, LAMBDA c : c \notin redundant)

MaxOf(a, b) == IF a >= b THEN a ELSE b

\* A bound that does not credit the removed and the unbuildable nodes.
possible_tower_count_uncredited(build_count, maxmin_dist, removed_count, unbuildable_count) ==
    build_count - MaxOf(maxmin_dist + 1, 0)

\* The bound calculate_max_towers derives from the map.
possible_tower_count(build_count, maxmin_dist, removed_count, unbuildable_count) ==
    build_count - MaxOf(maxmin_dist - removed_count - unbuildable_count + 1, 0)

\* A calculate_max_towers whose condition is `if tower_limit and ...`: the
\* limit 0 counts as no limit.
calculate_max_towers_truthy(tower_limit, possible) ==
    IF (tower_limit # NONE /\ tower_limit # 0) /\ tower_limit <= possible
    THEN tower_limit
    ELSE possible

\* calculate_max_towers: the limit when one is given (0 included) and it is
\* not above the derived bound, the derived bound otherwise.
calculate_max_towers(tower_limit, possible) ==
    IF (tower_limit # NONE /\ (tower_limit # 0 \/ tower_limit = 0)) /\ tower_limit <= possible
    THEN tower_limit
    ELSE possible

(***************************************************************************)
(* Distances (utils/graph_algorithms.py): a list of distances; every       *)
(* comparison sorts both operands in place and compares the lists the way  *)
(* Python compares lists.                                                  *)
(***************************************************************************)
\* A sort that leaves the list in the order of the appends.
sort_skipped(dists) == dists

\* Distances.sort: list.sort, ascending.
sort(dists) == SortSeq(dists, LAMBDA a, b : a < b)

\* list > list: decided at the first index where they differ, by length when
\* one is a prefix of the other.
list_gt(a, b) ==
    LET common == IF Len(a) <= Len(b) THEN Len(a) ELSE Len(b)
        differ == {i \in 1 .. common : a[i] # b[i]}
    IN IF differ = {} THEN Len(a) > Len(b)
       ELSE a[Min(differ)] > b[Min(differ)]

Distances_gt(self, other) == list_gt(sort(self), sort(other))
Distances_ge(self, other) == sort(self) = sort(other) \/ list_gt(sort(self), sort(other))
Distances_eq(self, other) == sort(self) = sort(other)

(***************************************************************************)
(* NaiveBuilder (builders/naive_builder.py).                               *)
(***************************************************************************)

\* itertools.combinations(seq, k), in its order.
RECURSIVE combinations(_, _)
combinations(seq, k) ==
    IF k = 0 THEN << <<>> >>
    ELSE IF Len(seq) < k THEN <<>>
    ELSE LET with == combinations(Tail(seq), k - 1)
         IN [i \in 1 .. Len(with) |-> <<Head(seq)>> \o with[i]]
            \o combinations(Tail(seq), k)

\* calculate_maze_distances measuring before the towers are placed.
calculate_maze_distances_unplaced(spawn_nodes, ty, combination, nodes, n) ==
    get_distances(spawn_nodes, TTypeExit, ty, nodes, n)

\* calculate_maze_distances: the towers of the combination, then get_distances.
calculate_maze_distances(spawn_nodes, ty, combination, nodes, n) ==
    get_distances(spawn_nodes, TTypeExit,
                  [c \in DOMAIN ty |-> IF c \in Range(combination) THEN TTypeOccupied ELSE ty[c]],
                  nodes, n)

\* revert_to_buildables: every coordinate of the combination becomes basic.
revert_to_buildables(ty, combination) ==
    [c \in DOMAIN ty |-> IF c \in Range(combination) THEN TTypeBasic ELSE ty[c]]

\* The for loop of get_best_tower_combinations.
RECURSIVE gbtc_for(_, _, _, _, _)
gbtc_for(combs, st, spawn_nodes, nodes, n) ==
    IF combs = <<>> THEN st
    ELSE LET combination == Head(combs)
             dists == calculate_maze_distances(spawn_nodes, st.ttype, combination, nodes, n)
             ty1 == revert_to_buildables(st.ttype, combination)
             st1 == IF dists = NoneDists THEN [st EXCEPT !.ttype = ty1]
                    ELSE IF st.best_dists = NoneDists
                    THEN [ttype |-> ty1, best_dists |-> dists,
                          best_tower_coords |-> <<combination>>]
                    ELSE IF Distances_gt(dists, st.best_dists)
                    THEN [ttype |-> ty1, best_dists |-> sort(dists),
                          best_tower_coords |-> <<combination>>]
                    ELSE IF Distances_eq(dists, st.best_dists)
                    THEN [ttype |-> ty1, best_dists |-> sort(st.best_dists),
                          best_tower_coords |-> Append(st.best_tower_coords, combination)]
                    ELSE [st EXCEPT !.ttype = ty1, !.best_dists = sort(@)]
         IN gbtc_for(Tail(combs), st1, spawn_nodes, nodes, n)

get_best_tower_combinations(tower_count, build_nodes, spawn_nodes, ty, nodes, n) ==
    gbtc_for(combinations(build_nodes, tower_count),
             [ttype |-> ty, best_dists |-> NoneDists, best_tower_coords |-> <<>>],
             spawn_nodes, nodes, n)

(***************************************************************************)
(* Shortest-path nodes (utils/graph_algorithms.py).                        *)
(***************************************************************************)

\* collect_all_paths, from the for loop over the neighbors nbs of node on.
RECURSIVE collect_all_paths_for(_, _, _, _, _, _, _)
collect_all_paths_for(nbs, node, collected, distance, ty, nodes, n) ==
    IF nbs = <<>> THEN collected
    ELSE LET neighbor == Head(nbs) IN
         IF /\ is_traversable(ty[neighbor])
            /\ distance[neighbor] = distance[node] - 1
            /\ neighbor \notin collected
            /\ distance[neighbor] # 0
         THEN collect_all_paths_for(
                  Tail(nbs), node,
                  collect_all_paths_for(SeqOf(neighbors(neighbor, nodes, n)), neighbor,
                                        collected \cup {neighbor}, distance, ty, nodes, n),
                  distance, ty, nodes, n)
         ELSE collect_all_paths_for(Tail(nbs), node, collected, distance, ty, nodes, n)

collect_all_paths(node, collected, distance, ty, nodes, n) ==
    collect_all_paths_for(SeqOf(neighbors(node, nodes, n)), node, collected, distance,
                          ty, nodes, n)

\* The for loop of get_nodes_on_shortest_paths: every unvisited traversable
\* neighbor is marked, labelled and queued.
RECURSIVE nsp_neighbors(_, _, _, _, _, _)
nsp_neighbors(nbs, node, queue, visited, distance, ty) ==
    IF nbs = <<>> THEN [queue |-> queue, visited |-> visited, distance |-> distance]
    ELSE LET neighbor == Head(nbs) IN
         IF neighbor \notin visited /\ is_traversable(ty[neighbor])
         THEN nsp_neighbors(Tail(nbs), node, Append(queue, neighbor), visited \cup {neighbor},
                            [distance EXCEPT ![neighbor] = distance[node] + 1], ty)
         ELSE nsp_neighbors(Tail(nbs), node, queue, visited, distance, ty)

\* The outer while loop of get_nodes_on_shortest_paths, up to the first node of
\* the ending type that leaves the queue.
RECURSIVE nsp_while(_, _, _, _, _, _, _)
nsp_while(queue, visited, distance, ending_type, ty, nodes, n) ==
    IF queue = <<>> THEN [found |-> FALSE, visited |-> visited, distance |-> distance]
    ELSE LET node == Head(queue) IN
         IF ty[node] = ending_type
         THEN [found |-> TRUE, node |-> node, visited |-> visited, distance |-> distance]
         ELSE LET r == nsp_neighbors(SeqOf(neighbors(node, nodes, n)), node, Tail(queue),
                                     visited, distance, ty)
              IN nsp_while(r.queue, r.visited, r.distance, ending_type, ty, nodes, n)

\* get_nodes_on_shortest_paths returns (distance, path_nodes); choices holds the
\* values path_nodes can have.  The inner while loop collects the paths of every
\* node of the ending type left in the queue with the same distance, and it
\* tests a node's type before it tests its distance: when the first node it
\* meets with a greater distance is of the ending type, that node's paths are
\* collected too.  Which node that is depends on the order in which the
\* neighbor sets are iterated: it can be any node of the ending type that is
\* first reached from a node at the found distance that is not of the ending
\* type, or none.
get_nodes_on_shortest_paths(starting_node, ending_type, ty, nodes, n) ==
    LET r == nsp_while(<<starting_node>>, {starting_node}, [c \in nodes |-> 0],
                       ending_type, ty, nodes, n)
    IN IF ~r.found THEN [distance |-> NONE, choices |-> {{}}]
       ELSE LET distance == r.distance[r.node]
                level == {c \in r.visited : r.distance[c] <= distance}
                tied == {c \in level : ty[c] = ending_type /\ r.distance[c] = distance}
                path_nodes ==
                    UNION {collect_all_paths(e, {}, r.distance, ty, nodes, n) : e \in tied}
                farther ==
                    {w \in nodes \ level :
                        /\ is_traversable(ty[w])
                        /\ ty[w] = ending_type
                        /\ \E u \in level : /\ r.distance[u] = distance
                                            /\ ty[u] # ending_type
                                            /\ w \in neighbors(u, nodes, n)}
            IN [distance |-> distance,
                choices |->
                    {path_nodes} \cup
                    {path_nodes \cup
                     collect_all_paths(w, {}, [r.distance EXCEPT ![w] = distance + 1],
                                       ty, nodes, n) : w \in farther}]

\* get_nodes_on_shortest_paths_multiple: (None, None) at the first starting
\* node without a path, else the distances and the union of the node sets.
RECURSIVE get_nodes_on_shortest_paths_multiple(_, _, _, _, _)
get_nodes_on_shortest_paths_multiple(starting_nodes, ending_type, ty, nodes, n) ==
    IF starting_nodes = <<>> THEN [dists |-> <<>>, choices |-> {{}}]
    ELSE LET one == get_nodes_on_shortest_paths(Head(starting_nodes), ending_type, ty,
                                                nodes, n)
         IN IF Falsy(one.distance) THEN [dists |-> NoneDists, choices |-> {{}}]
            ELSE LET rest == get_nodes_on_shortest_paths_multiple(
                                 Tail(starting_nodes), ending_type, ty, nodes, n)
                 IN IF rest.dists = NoneDists THEN rest
                    ELSE [dists |-> <<one.distance>> \o rest.dists,
                          choices |-> {a \cup b : a \in one.choices, b \in rest.choices}]

(***************************************************************************)
(* The maps.  Every grid of at most MaxCells tiles over all tile types,    *)
(* and some larger maps.                                                   *)
(***************************************************************************)
MaxCells == 4
MaxLimit == 1

Shapes(cells) == {wh \in (1 .. cells) \X (1 .. cells) : wh[1] * wh[2] <= cells}

\* rows[y + 1][x + 1] is the type of the tile at (x, y).
MapOf(rows) ==
    [c \in Cells(Len(rows[1]), Len(rows)) |-> rows[c[2] + 1][c[1] + 1]]

Width(tiles) == Max({c[1] : c \in DOMAIN tiles}) + 1
Height(tiles) == Max({c[2] : c \in DOMAIN tiles}) + 1

SmallMaps(cells) ==
    UNION {[Cells(wh[1], wh[2]) -> TTYPES] : wh \in Shapes(cells)}

Inputs(tileses, limits) ==
    {[width |-> Width(t), height |-> Height(t), tiles |-> t,
      neighbor_count |-> nc, tower_limit |-> tl] :
        t \in tileses, nc \in {4, 8}, tl \in limits}

NoBuilder ==
    [coordinated_build_nodes |-> <<>>, removed |-> <<>>, spawn_nodes |-> <<>>,
     max_towers |-> 0]
NoNaive == [counter |-> 0, best_dists |-> NoneDists, best_tower_coords |-> <<>>]
NoCutoff ==
    [stack |-> <<>>, processed_coordinates |-> <<>>, best_dists |-> NoneDists,
     best_tower_coords |-> <<>>, calls |-> <<>>]
NoDcmp == [a |-> <<>>, b |-> <<>>, op |-> "", result |-> FALSE]
NoBfs == [state |-> "idle", path_nodes |-> {}]
NoQLearn ==
    [at |-> "none", goal_coords |-> {}, q |-> <<>>, blocked |-> {}, idx |-> 0,
     current_state |-> NONE, path_taken |-> {}, dead_end |-> FALSE, result |-> <<>>,
     moves |-> 0]

InitWith(inputs) ==
    /\ map \in inputs
    /\ pc = "validate"
    /\ verdict = ""
    /\ ttype = map.tiles
    /\ builder = NoBuilder
    /\ naive = NoNaive
    /\ cutoff = NoCutoff
    /\ dcmp = NoDcmp
    /\ bfs = NoBfs
    /\ qlearn = NoQLearn

Nodes == DOMAIN map.tiles

(***************************************************************************)
(* Window.create_maze: validation, then the builder.                       *)
(***************************************************************************)

\* initiate_map_validation: validate_map returns or raises one ValidationError.
Validate ==
    /\ pc = "validate"
    /\ \E v \in validate_map(map.tiles, map.neighbor_count) :
          /\ verdict' = v
          /\ pc' = IF v = "ok" THEN "construct" ELSE "rejected"
    /\ UNCHANGED <<map, ttype, builder, naive, cutoff, dcmp, bfs, qlearn>>

\* MazeBuilder.__init__: clear_single_paths, clear_redundant_spawns,
\* calculate_max_towers.  pc is "hang" when clear_single_paths never returns
\* and "raised" when calculate_max_towers raises TypeError (maxmin_dist is None).
Construct ==
    /\ pc = "construct"
    /\ LET csp == clear_single_paths(ttype, Nodes, map.neighbor_count)
           trav == coordinated_traversables(ttype)
           spawn_nodes ==
               clear_redundant_spawns(SeqOf({c \in trav : is_spawn(ttype[c])}),
                                      ttype, Nodes, map.neighbor_count)
           maxmin_dist ==
               get_maxmin_distance(spawn_nodes, TTypeExit, ttype, Nodes, map.neighbor_count)
       IN IF csp.hangs
          THEN /\ pc' = "hang"
               /\ builder' = [builder EXCEPT !.coordinated_build_nodes = csp.build,
                                             !.removed = csp.removed]
          ELSE IF maxmin_dist = NONE
          THEN /\ pc' = "raised"
               /\ builder' = [builder EXCEPT !.coordinated_build_nodes = csp.build,
                                             !.removed = csp.removed,
                                             !.spawn_nodes = spawn_nodes]
          ELSE /\ builder' =
                     [coordinated_build_nodes |-> csp.build,
                      removed |-> csp.removed,
                      spawn_nodes |-> spawn_nodes,
                      max_towers |->
                          calculate_max_towers(
                              map.tower_limit,
                              possible_tower_count(Len(csp.build), maxmin_dist,
                                                   Len(csp.removed),
                                                   Cardinality(coordinated_unbuildables(ttype))))]
               /\ pc' = IF 0 <= builder'.max_towers THEN "naive" ELSE "naive_done"
    /\ UNCHANGED <<map, verdict, ttype, naive, cutoff, dcmp, bfs, qlearn>>

\* One pass of the while loop of NaiveBuilder.generate_optimal_mazes.
NaiveStep ==
    /\ pc = "naive"
    /\ LET r == get_best_tower_combinations(naive.counter, builder.coordinated_build_nodes,
                                            builder.spawn_nodes, ttype, Nodes,
                                            map.neighbor_count)
           dists == r.best_dists
       IN /\ ttype' = r.ttype
          /\ naive' =
               IF dists = NoneDists
               THEN [naive EXCEPT !.counter = @ + 1]
               ELSE IF naive.best_dists = NoneDists
               THEN [counter |-> naive.counter + 1, best_dists |-> dists,
                     best_tower_coords |-> r.best_tower_coords]
               ELSE IF Distances_gt(dists, naive.best_dists)
               THEN [counter |-> naive.counter + 1, best_dists |-> sort(dists),
                     best_tower_coords |-> r.best_tower_coords]
               ELSE IF Distances_eq(dists, naive.best_dists)
               THEN [counter |-> naive.counter + 1, best_dists |-> sort(naive.best_dists),
                     best_tower_coords |-> naive.best_tower_coords \o r.best_tower_coords]
               ELSE [naive EXCEPT !.counter = @ + 1, !.best_dists = sort(@)]
          /\ pc' = IF naive'.counter <= builder.max_towers THEN "naive" ELSE "naive_done"
    /\ UNCHANGED <<map, verdict, builder, cutoff, dcmp, bfs, qlearn>>

(***************************************************************************)
(* CutoffBuilder (builders/cutoff_builder.py).  The recursion of           *)
(* cut_off_route is a stack of frames; the top frame is the running call.  *)
(* A frame holds the call's arguments, the candidate nodes its for loop    *)
(* has still to visit, and the coordinates of the tower it has placed.     *)
(* CutoffBuilder.__init__ passes (tiles, neighbor_count, tower_limit) on   *)
(* and reads self.traversables and self.spawn_coords, which the            *)
(* MazeBuilder of this source tree does not take or set; the model gives   *)
(* the pruned search the fields MazeBuilder.__init__ does set:             *)
(* traversables is coordinated_traversables and spawn_nodes the spawns     *)
(* left by clear_redundant_spawns.  Both searches run on the same input,   *)
(* the exhaustive one first, so that their results can be compared.        *)
(* cutoff.calls is the list of the combinations cut_off_route has been     *)
(* called with, in call order; the code keeps only its length, in          *)
(* combination_counter.                                                    *)
(***************************************************************************)
Last(s) == s[Len(s)]
Top == Last(cutoff.stack)
Frame(combination, towers_left) ==
    [combination |-> combination, towers_left |-> towers_left, at |-> "enter",
     nodes |-> {}, cur |-> <<>>]
ReplaceTop(stack, frame) == [stack EXCEPT ![Len(stack)] = frame]

\* CutoffBuilder.generate_optimal_mazes up to the first call of cut_off_route.
\* The second builder gets a graph of its own (Window.create_maze); its
\* constructor computes what the first one computed.
CutoffStart ==
    /\ pc = "naive_done"
    /\ 0 <= builder.max_towers
    /\ pc' = "cutoff"
    /\ ttype' = map.tiles
    /\ cutoff' = [stack |-> <<Frame(<<>>, builder.max_towers)>>,
                  processed_coordinates |-> [count \in 1 .. builder.max_towers |-> {}],
                  best_dists |-> NoneDists,
                  best_tower_coords |-> <<>>,
                  calls |-> << <<>> >>]
    /\ UNCHANGED <<map, verdict, builder, naive, dcmp, bfs, qlearn>>

\* A budget that is never used up.
cannot_insert_more_never(towers_left) == FALSE

\* "Cannot insert more towers to the combination".
cannot_insert_more(towers_left) == towers_left = 0

\* The candidates with no processed coordinates removed.
remove_processed_skipped(nodes, processed_coordinates, towers_left, max_towers) ==
    nodes

\* "Remove processed coordinates to avoid duplicate combinations": the loop
\* over range(max_towers, towers_left, -1).
remove_processed(nodes, processed_coordinates, towers_left, max_towers) ==
    nodes \ UNION {processed_coordinates[count] : count \in (towers_left + 1) .. max_towers}

\* cut_off_route from its first line to the for loop.
cut_off_route_enter ==
    /\ pc = "cutoff"
    /\ Top.at = "enter"
    /\ LET found == get_nodes_on_shortest_paths_multiple(
                        builder.spawn_nodes, TTypeExit, ttype, Nodes, map.neighbor_count)
           dists == found.dists
           towers_left == Top.towers_left
           combination == Top.combination
       IN \E nodes \in found.choices :
            IF dists = NoneDists
            THEN IF towers_left = builder.max_towers
                 THEN \* iterating over None raises TypeError
                      /\ pc' = "raised"
                      /\ UNCHANGED cutoff
                 ELSE /\ pc' = pc
                      /\ cutoff' =
                           [cutoff EXCEPT
                              !.stack = ReplaceTop(@, [Top EXCEPT !.at = "return"]),
                              !.processed_coordinates =
                                  IF towers_left > 0
                                  THEN [@ EXCEPT ![towers_left] = @ \cup {Last(combination)}]
                                  ELSE @]
            ELSE LET best_dists ==
                         IF cutoff.best_dists = NoneDists THEN dists
                         ELSE IF Distances_gt(dists, cutoff.best_dists) THEN sort(dists)
                         ELSE sort(cutoff.best_dists)
                     best_tower_coords ==
                         IF cutoff.best_dists = NoneDists
                            \/ Distances_gt(dists, cutoff.best_dists)
                         THEN <<combination>>
                         ELSE IF Distances_eq(dists, cutoff.best_dists)
                         THEN Append(cutoff.best_tower_coords, combination)
                         ELSE cutoff.best_tower_coords
                 IN /\ pc' = pc
                    /\ cutoff' =
                         [cutoff EXCEPT
                            !.best_dists = best_dists,
                            !.best_tower_coords = best_tower_coords,
                            !.stack =
                                ReplaceTop(@, IF cannot_insert_more(towers_left)
                                              THEN [Top EXCEPT !.at = "return"]
                                              ELSE [Top EXCEPT !.at = "loop",
                                                               !.nodes =
                                                                   remove_processed(
                                                                       nodes,
                                                                       cutoff.processed_coordinates,
                                                                       towers_left,
                                                                       builder.max_towers)])]
    /\ UNCHANGED <<map, verdict, ttype, builder, naive, dcmp, bfs, qlearn>>

\* One pass of the for loop up to the recursive call: the loop takes the
\* candidates in any order, skips those that do not allow building, and places
\* a tower on the next one that does.
cut_off_route_place ==
    /\ pc = "cutoff"
    /\ Top.at = "loop"
    /\ \E node \in Top.nodes :
          /\ allow_building(ttype[node])
          /\ ttype' = [ttype EXCEPT ![node] = TTypeOccupied]
          /\ cutoff' =
               [cutoff EXCEPT
                  !.stack =
                      Append(ReplaceTop(@, [Top EXCEPT !.nodes = @ \ {node}, !.cur = node]),
                             Frame(Append(Top.combination, node), Top.towers_left - 1)),
                  !.calls = Append(@, Append(Top.combination, node))]
    /\ UNCHANGED <<map, pc, verdict, builder, naive, dcmp, bfs, qlearn>>

\* The coordinate recorded and the level below left as it is.
mark_processed_uncleared(processed_coordinates, towers_left, coords) ==
    [count \in DOMAIN processed_coordinates |->
        IF count = towers_left THEN processed_coordinates[count] \cup {coords}
        ELSE processed_coordinates[count]]

\* "Add coordinate as processed, mark deeper processed coordinates as
\* unprocessed".
mark_processed(processed_coordinates, towers_left, coords) ==
    [count \in DOMAIN processed_coordinates |->
        IF count = towers_left THEN processed_coordinates[count] \cup {coords}
        ELSE IF towers_left > 1 /\ count = towers_left - 1 THEN {}
        ELSE processed_coordinates[count]]

\* A call returns: its caller makes the tower's node basic again, records the
\* coordinates as processed and forgets the processed coordinates one level
\* deeper.  The outermost call returns to generate_optimal_mazes.
cut_off_route_return ==
    /\ pc = "cutoff"
    /\ \/ Top.at = "return"
       \/ Top.at = "loop" /\ \A node \in Top.nodes : ~allow_building(ttype[node])
    /\ IF Len(cutoff.stack) = 1
       THEN /\ pc' = "done"
            /\ cutoff' = [cutoff EXCEPT !.stack = <<>>]
            /\ UNCHANGED ttype
       ELSE LET caller == cutoff.stack[Len(cutoff.stack) - 1]
                towers_left == caller.towers_left
                callers == SubSeq(cutoff.stack, 1, Len(cutoff.stack) - 1)
            IN /\ pc' = pc
               /\ ttype' = [ttype EXCEPT ![caller.cur] = TTypeBasic]
               /\ cutoff' =
                    [cutoff EXCEPT
                       !.stack = ReplaceTop(callers, [caller EXCEPT !.cur = <<>>]),
                       !.processed_coordinates =
                           mark_processed(@, towers_left, caller.cur)]
    /\ UNCHANGED <<map, verdict, builder, naive, dcmp, bfs, qlearn>>

\* Larger maps: a corridor with a spawn between two exits and a second spawn
\* inside it, a diamond of four diagonally adjacent spawns beside a fifth spawn,
\* an open field with a direct path and a detour, a plus of a spawn, an
\* exit and three basic tiles with void corners, a field of two rows where
\* the pruned search places three towers, and a ring of spawns around an
\* exit.
CorridorMap ==
    MapOf(<<<<TTypeExit, TTypeBasic, TTypeSpawn, TTypeBasic, TTypeSpawn, TTypeExit>>>>)
DiamondMap ==
    MapOf(<<<<TTypeVoid, TTypeSpawn, TTypeVoid, TTypeVoid, TTypeSpawn>>,
            <<TTypeSpawn, TTypeVoid, TTypeSpawn, TTypeBasic, TTypeExit>>,
            <<TTypeVoid, TTypeSpawn, TTypeVoid, TTypeVoid, TTypeVoid>>>>)
OpenMap ==
    MapOf(<<<<TTypeSpawn, TTypeBasic, TTypeExit>>,
            <<TTypeBasic, TTypeBasic, TTypeBasic>>>>)
PlusMap ==
    MapOf(<<<<TTypeVoid, TTypeBasic, TTypeVoid>>,
            <<TTypeSpawn, TTypeBasic, TTypeExit>>,
            <<TTypeVoid, TTypeBasic, TTypeVoid>>>>)
FieldMap ==
    MapOf(<<<<TTypeVoid, TTypeSpawn, TTypeBasic, TTypeBasic>>,
            <<TTypeBasic, TTypeBasic, TTypeBasic, TTypeExit>>>>)
RingMap ==
    MapOf(<<<<TTypeSpawn, TTypeSpawn, TTypeSpawn>>,
            <<TTypeSpawn, TTypeExit, TTypeSpawn>>,
            <<TTypeSpawn, TTypeSpawn, TTypeSpawn>>>>)
TwoExitMap ==
    MapOf(<<<<TTypeBasic, TTypeExit, TTypeBasic, TTypeSpawn, TTypeExit>>>>)
LargerMaps == {CorridorMap, DiamondMap, OpenMap, PlusMap, FieldMap, RingMap, TwoExitMap}

\* Maps for the Q-learning search: a spawn between a dead end and the exit,
\* the dead end one, two and four tiles long.
DeadEndMap == MapOf(<<<<TTypeBasic, TTypeSpawn, TTypeBasic, TTypeExit>>>>)
LongDeadEndMap ==
    MapOf(<<<<TTypeBasic, TTypeBasic, TTypeBasic, TTypeBasic, TTypeSpawn, TTypeBasic,
              TTypeExit>>>>)
QMaps == {LongDeadEndMap}

Limits == {NONE} \cup (0 .. MaxLimit)

Init == InitWith(Inputs(SmallMaps(MaxCells) \cup LargerMaps, Limits))

Next ==
    \/ Validate
    \/ Construct
    \/ NaiveStep
    \/ CutoffStart
    \/ cut_off_route_enter
    \/ cut_off_route_place
    \/ cut_off_route_return

Spec == Init /\ [][Next]_vars

(***************************************************************************)
(* Distances on its own: two instances a and b filled by append and        *)
(* compared; a comparison sorts both lists in place.                       *)
(***************************************************************************)
MaxDists == 3
MaxDistance == 3

NoMap == [width |-> 0, height |-> 0, tiles |-> <<>>, neighbor_count |-> 4,
          tower_limit |-> NONE]

InitDistances ==
    /\ map = NoMap
    /\ pc = "distances"
    /\ verdict = ""
    /\ ttype = map.tiles
    /\ builder = NoBuilder
    /\ naive = NoNaive
    /\ cutoff = NoCutoff
    /\ dcmp = NoDcmp
    /\ bfs = NoBfs
    /\ qlearn = NoQLearn

\* a.append(item)
Distances_append_a ==
    /\ pc = "distances"
    /\ Len(dcmp.a) < MaxDists
    /\ \E item \in 1 .. MaxDistance :
          dcmp' = [a |-> Append(dcmp.a, item), b |-> dcmp.b, op |-> "append",
                   result |-> FALSE]
    /\ UNCHANGED <<map, pc, verdict, ttype, builder, naive, cutoff, bfs, qlearn>>

\* b.append(item)
Distances_append_b ==
    /\ pc = "distances"
    /\ Len(dcmp.b) < MaxDists
    /\ \E item \in 1 .. MaxDistance :
          dcmp' = [a |-> dcmp.a, b |-> Append(dcmp.b, item), op |-> "append",
                   result |-> FALSE]
    /\ UNCHANGED <<map, pc, verdict, ttype, builder, naive, cutoff, bfs, qlearn>>

\* a > b
Distances_compare_gt ==
    /\ pc = "distances"
    /\ dcmp' = [a |-> sort(dcmp.a), b |-> sort(dcmp.b), op |-> "gt",
                result |-> Distances_gt(dcmp.a, dcmp.b)]
    /\ UNCHANGED <<map, pc, verdict, ttype, builder, naive, cutoff, bfs, qlearn>>

\* a >= b
Distances_compare_ge ==
    /\ pc = "distances"
    /\ dcmp' = [a |-> sort(dcmp.a), b |-> sort(dcmp.b), op |-> "ge",
                result |-> Distances_ge(dcmp.a, dcmp.b)]
    /\ UNCHANGED <<map, pc, verdict, ttype, builder, naive, cutoff, bfs, qlearn>>

\* a == b
Distances_compare_eq ==
    /\ pc = "distances"
    /\ dcmp' = [a |-> sort(dcmp.a), b |-> sort(dcmp.b), op |-> "eq",
                result |-> Distances_eq(dcmp.a, dcmp.b)]
    /\ UNCHANGED <<map, pc, verdict, ttype, builder, naive, cutoff, bfs, qlearn>>

NextDistances ==
    \/ Distances_append_a
    \/ Distances_append_b
    \/ Distances_compare_gt
    \/ Distances_compare_ge
    \/ Distances_compare_eq

DistancesSpec == InitDistances /\ [][NextDistances]_vars

(***************************************************************************)
(* get_shortest_distance_any on its own, one pass of its while loop at a   *)
(* time, from a spawn towards the exits of any small grid.  node.neighbors *)
(* is a set: the for loop takes the neighbors in any order.                *)
(***************************************************************************)
Orderings(S) ==
    {order \in [1 .. Cardinality(S) -> S] : Range(order) = S}

\* A queue with room for one node fewer than Queue(maxsize=node_count - 1).
queue_maxsize_smaller(node_count) == node_count - 2

\* Queue(maxsize=node_count - 1).  get_distances, get_maxmin_distance and the
\* pruned search pass the number of traversable nodes as node_count.
queue_maxsize(node_count) == node_count - 1

\* Queue.put waits while a queue of maxsize > 0 holds maxsize items, and
\* nothing in the program takes an item while put waits; a queue of
\* maxsize <= 0 has no limit.  The puts of one pass follow its only get, so
\* one of them waits exactly when the queue after the pass, written without
\* the limit, is longer than maxsize.
put_blocks(queue, maxsize) == maxsize > 0 /\ Len(queue) > maxsize

\* The inner while loop of get_nodes_on_shortest_paths: the nodes left in the
\* queue, up to and including the first one that is farther than the node found.
RECURSIVE nsp_same_distance(_, _, _, _, _, _, _, _)
nsp_same_distance(queue, path_nodes, found, distance, ending_type, ty, nodes, n) ==
    IF queue = <<>> THEN path_nodes
    ELSE LET node == Head(queue)
             collected == IF ty[node] = ending_type
                          THEN path_nodes \cup collect_all_paths(node, {}, distance, ty,
                                                                 nodes, n)
                          ELSE path_nodes
         IN IF distance[node] > found THEN collected
            ELSE nsp_same_distance(Tail(queue), collected, found, distance, ending_type,
                                   ty, nodes, n)

InitBfs ==
    /\ map \in Inputs(SmallMaps(MaxCells), {NONE})
    /\ pc = "bfs"
    /\ verdict = ""
    /\ ttype = map.tiles
    /\ builder = NoBuilder
    /\ naive = NoNaive
    /\ cutoff = NoCutoff
    /\ dcmp = NoDcmp
    /\ bfs = NoBfs
    /\ qlearn = NoQLearn

\* The lines before the while loop.
sda_start ==
    /\ pc = "bfs"
    /\ bfs.state = "idle"
    /\ \E starting_node \in {c \in Nodes : is_spawn(ttype[c])} :
          bfs' = [state |-> "running", starting_node |-> starting_node,
                  queue |-> <<starting_node>>, visited |-> {starting_node},
                  distance |-> [c \in Nodes |-> 0], result |-> NONE,
                  path_nodes |-> {},
                  maxsize |-> queue_maxsize(Cardinality(coordinated_traversables(ttype))),
                  puts |-> <<starting_node>>]
    /\ UNCHANGED <<map, pc, verdict, ttype, builder, naive, cutoff, dcmp, qlearn>>

\* One pass of the while loop: queue.get and the for loop over the neighbors.
sda_pass ==
    /\ pc = "bfs"
    /\ bfs.state = "running"
    /\ bfs.queue # <<>>
    /\ LET node == Head(bfs.queue) IN
       \E order \in Orderings(neighbors(node, Nodes, map.neighbor_count)) :
          LET r == sda_neighbors(order, node, Tail(bfs.queue), bfs.visited, bfs.distance,
                                 TTypeExit, ttype)
              put == SubSeq(r.queue, Len(bfs.queue), Len(r.queue))
          IN bfs' = IF put_blocks(r.queue, bfs.maxsize)
                    THEN [bfs EXCEPT !.state = "blocked", !.queue = r.queue,
                                     !.puts = @ \o put]
                    ELSE IF r.ret # NONE
                    THEN [bfs EXCEPT !.state = "returned", !.result = r.ret,
                                     !.queue = r.queue, !.visited = r.visited,
                                     !.distance = r.distance, !.puts = @ \o put]
                    ELSE [bfs EXCEPT !.queue = r.queue, !.visited = r.visited,
                                     !.distance = r.distance, !.puts = @ \o put]
    /\ UNCHANGED <<map, pc, verdict, ttype, builder, naive, cutoff, dcmp, qlearn>>

\* The queue is empty: the function ends without a return value.
sda_none ==
    /\ pc = "bfs"
    /\ bfs.state = "running"
    /\ bfs.queue = <<>>
    /\ bfs' = [bfs EXCEPT !.state = "returned", !.result = NONE]
    /\ UNCHANGED <<map, pc, verdict, ttype, builder, naive, cutoff, dcmp, qlearn>>

\* get_nodes_on_shortest_paths from a spawn of a reset graph, as one step: the
\* distance and one of the node sets the neighbor orders allow.
nsp_call ==
    /\ pc = "bfs"
    /\ bfs.state = "idle"
    /\ \E starting_node \in {c \in Nodes : is_spawn(ttype[c])} :
          LET r == get_nodes_on_shortest_paths(starting_node, TTypeExit, ttype, Nodes,
                                               map.neighbor_count)
          IN \E path_nodes \in r.choices :
                bfs' = [state |-> "collected", starting_node |-> starting_node,
                        result |-> r.distance, path_nodes |-> path_nodes]
    /\ UNCHANGED <<map, pc, verdict, ttype, builder, naive, cutoff, dcmp, qlearn>>

\* get_nodes_on_shortest_paths one pass of its outer while loop at a time.
\* The lines before the loop.
nsp_start ==
    /\ pc = "bfs"
    /\ bfs.state = "idle"
    /\ \E starting_node \in {c \in Nodes : is_spawn(ttype[c])} :
          bfs' = [state |-> "searching", starting_node |-> starting_node,
                  queue |-> <<starting_node>>, visited |-> {starting_node},
                  distance |-> [c \in Nodes |-> 0], result |-> NONE,
                  path_nodes |-> {},
                  maxsize |-> queue_maxsize(Cardinality(coordinated_traversables(ttype))),
                  puts |-> <<starting_node>>]
    /\ UNCHANGED <<map, pc, verdict, ttype, builder, naive, cutoff, dcmp, qlearn>>

\* One pass of the outer loop: queue.get, then either the node is an exit and
\* the inner loop and the return follow, or the for loop over the neighbors.
nsp_pass ==
    /\ pc = "bfs"
    /\ bfs.state = "searching"
    /\ bfs.queue # <<>>
    /\ LET node == Head(bfs.queue) IN
       IF ttype[node] = TTypeExit
       THEN bfs' = [bfs EXCEPT
                       !.state = "finished",
                       !.result = bfs.distance[node],
                       !.queue = Tail(@),
                       !.path_nodes =
                           nsp_same_distance(
                               Tail(bfs.queue),
                               collect_all_paths(node, {}, bfs.distance, ttype, Nodes,
                                                 map.neighbor_count),
                               bfs.distance[node], bfs.distance, TTypeExit, ttype, Nodes,
                               map.neighbor_count)]
       ELSE \E order \in Orderings(neighbors(node, Nodes, map.neighbor_count)) :
               LET r == nsp_neighbors(order, node, Tail(bfs.queue), bfs.visited,
                                      bfs.distance, ttype)
                   put == SubSeq(r.queue, Len(bfs.queue), Len(r.queue))
               IN bfs' = [bfs EXCEPT
                             !.state = IF put_blocks(r.queue, bfs.maxsize)
                                       THEN "blocked" ELSE @,
                             !.queue = r.queue, !.visited = r.visited,
                             !.distance = r.distance, !.puts = @ \o put]
    /\ UNCHANGED <<map, pc, verdict, ttype, builder, naive, cutoff, dcmp, qlearn>>

\* The queue is empty: (None, None).
nsp_none ==
    /\ pc = "bfs"
    /\ bfs.state = "searching"
    /\ bfs.queue = <<>>
    /\ bfs' = [bfs EXCEPT !.state = "finished", !.result = NONE]
    /\ UNCHANGED <<map, pc, verdict, ttype, builder, naive, cutoff, dcmp, qlearn>>

NextBfs ==
    sda_start \/ sda_pass \/ sda_none \/ nsp_call \/ nsp_start \/ nsp_pass \/ nsp_none

BfsSpec == InitBfs /\ [][NextBfs]_vars

(***************************************************************************)
(* QLearnBuilder (builders/q_learn_builder.py).  The rewards of the        *)
(* Q-table are kept as integers in units of 1 / QUnit: alpha is 0.5, so    *)
(* every update halves a sum of table values and rewards, and QUnit is 2   *)
(* to the greatest number of updates a run can make.  training_times, 3000 *)
(* epochs per traversable node in the source, is the bound TrainingTimes.  *)
(* random() and randint() are free choices.  q_actions is a dict filled in *)
(* the iteration order of a neighbor set, so the action that wins a tie in *)
(* get_best_available_q_action is any of the tied ones.  qlearn.moves      *)
(* counts the calls of move since the episode or the rollout began.        *)
(***************************************************************************)
TrainingTimes == 2

reward_normal == 2
reward_fail == -1
reward_goal == 0

RECURSIVE Pow2(_)
Pow2(k) == IF k = 0 THEN 1 ELSE 2 * Pow2(k - 1)

QUnit == Pow2(TrainingTimes * Cardinality(Nodes))

\* get_goal_coords: the traversable neighbors of the exits.
get_goal_coords(ty, nodes, n) ==
    {c \in nodes : /\ is_traversable(ty[c])
                   /\ \E e \in coordinated_traversables(ty) :
                         is_exit(ty[e]) /\ c \in neighbors(e, nodes, n)}

\* build_q_table: a state for every traversable node but the exits, an action
\* for every traversable neighbor.
build_q_table(goal_coords, ty, nodes, n) ==
    [coords \in {c \in coordinated_traversables(ty) : ~is_exit(ty[c])} |->
        [n_coords \in {d \in neighbors(coords, nodes, n) : is_traversable(ty[d])} |->
            IF n_coords \in goal_coords THEN reward_goal * QUnit
            ELSE reward_normal * QUnit]]

available_actions(q, blocked, state) == DOMAIN q[state] \ blocked

\* get_best_available_q_action: the actions that can be returned with the
\* largest reward; found is FALSE for (None, -inf).
get_best_available_q_action(q, blocked, state) ==
    LET actions == available_actions(q, blocked, state)
    IN IF actions = {} THEN [found |-> FALSE, best_actions |-> {}, largest |-> 0]
       ELSE LET largest == Max({q[state][k] : k \in actions})
            IN [found |-> TRUE,
                best_actions |-> {k \in actions : q[state][k] = largest},
                largest |-> largest]

\* choose_action: the actions it can return; {} when it returns None
\* (no best action) or raises (randint on an empty range).
choose_action(q, blocked, state, allow_random) ==
    get_best_available_q_action(q, blocked, state).best_actions
        \cup (IF allow_random THEN available_actions(q, blocked, state) ELSE {})

\* A move that blocks nothing.
move_nothing(q, blocked, state, action) == blocked

\* move: the blocked set after the move.
move(q, blocked, state, action) ==
    blocked \cup ((DOMAIN q[state] \cup {state}) \ {action})

\* update with its best_possible_reward; called with the action a state of the
\* table.
update(q, blocked, old_state, action, reward) ==
    LET old_q_value == q[old_state][action]
        best == get_best_available_q_action(q, blocked, action)
        best_future == IF best.found THEN best.largest ELSE reward_fail * QUnit
    IN [q EXCEPT ![old_state][action] = (old_q_value + reward * QUnit + best_future) \div 2]

InitQLearn == InitWith(Inputs(SmallMaps(MaxCells) \cup QMaps, {NONE}))

Constructed == pc \in {"naive", "naive_done"}

\* QLearnBuilder.__init__ after MazeBuilder.__init__ has returned.
QLearnBuilder_init ==
    /\ Constructed
    /\ pc' = "qlearn"
    /\ LET goal_coords == get_goal_coords(ttype, Nodes, map.neighbor_count)
       IN qlearn' = [at |-> "train", goal_coords |-> goal_coords,
                     q |-> build_q_table(goal_coords, ttype, Nodes, map.neighbor_count),
                     blocked |-> {}, idx |-> 0, current_state |-> NONE,
                     path_taken |-> {}, dead_end |-> FALSE, result |-> <<>>,
                     moves |-> 0]
    /\ UNCHANGED <<map, verdict, ttype, builder, naive, cutoff, dcmp, bfs>>

\* train_agent: the head of the for loop, one more epoch.
train_agent_epoch ==
    /\ pc = "qlearn"
    /\ qlearn.at = "train"
    /\ qlearn.idx < TrainingTimes
    /\ qlearn' = [qlearn EXCEPT !.at = "epoch", !.idx = @ + 1, !.blocked = {}, !.moves = 0,
                                !.current_state = builder.spawn_nodes[1]]
    /\ UNCHANGED <<map, pc, verdict, ttype, builder, naive, cutoff, dcmp, bfs>>

\* train_agent: one pass of the while loop.  pc is "raised" when the pass
\* raises: no action to choose, or the action is no state of the table.
train_agent_step ==
    /\ pc = "qlearn"
    /\ qlearn.at = "epoch"
    /\ LET q == qlearn.q
           state == qlearn.current_state
           choices == choose_action(q, qlearn.blocked, state, TRUE)
       IN IF choices = {}
          THEN pc' = "raised" /\ UNCHANGED qlearn
          ELSE \E action \in choices :
                 LET blocked == move(q, qlearn.blocked, state, action)
                 IN IF action \notin DOMAIN q
                    THEN /\ pc' = "raised"
                         /\ qlearn' = [qlearn EXCEPT !.blocked = blocked, !.moves = @ + 1]
                    ELSE /\ pc' = pc
                         /\ qlearn' =
                              IF action \in qlearn.goal_coords
                              THEN [qlearn EXCEPT
                                      !.blocked = blocked, !.moves = @ + 1, !.at = "train",
                                      !.q = update(q, blocked, state, action, reward_goal)]
                              ELSE IF DOMAIN q[action] \ blocked = {}
                              THEN [qlearn EXCEPT
                                      !.blocked = blocked, !.moves = @ + 1, !.at = "train",
                                      !.q = update(q, blocked, state, action, reward_fail)]
                              ELSE [qlearn EXCEPT
                                      !.blocked = blocked, !.moves = @ + 1, !.current_state = action,
                                      !.q = update(q, blocked, state, action, reward_normal)]
    /\ UNCHANGED <<map, verdict, ttype, builder, naive, cutoff, dcmp, bfs>>

\* get_path: the lines before its while loop, after the last epoch.
get_path_start ==
    /\ pc = "qlearn"
    /\ qlearn.at = "train"
    /\ qlearn.idx = TrainingTimes
    /\ qlearn' = [qlearn EXCEPT !.at = "rollout", !.blocked = {}, !.moves = 0, !.path_taken = {},
                                !.current_state = builder.spawn_nodes[1]]
    /\ UNCHANGED <<map, pc, verdict, ttype, builder, naive, cutoff, dcmp, bfs>>

\* get_path: one pass of the while loop.  at is "path" when it returns,
\* dead_end when it returns None.
get_path_step ==
    /\ pc = "qlearn"
    /\ qlearn.at = "rollout"
    /\ LET q == qlearn.q
           state == qlearn.current_state
           choices == choose_action(q, qlearn.blocked, state, FALSE)
       IN IF choices = {}
          THEN pc' = "raised" /\ UNCHANGED qlearn
          ELSE \E action \in choices :
                 LET blocked == move(q, qlearn.blocked, state, action)
                     path_taken == qlearn.path_taken \cup {action}
                 IN IF action \in qlearn.goal_coords
                    THEN /\ pc' = pc
                         /\ qlearn' = [qlearn EXCEPT !.blocked = blocked, !.moves = @ + 1, !.at = "path",
                                                     !.path_taken = path_taken]
                    ELSE IF action \notin DOMAIN q
                    THEN /\ pc' = "raised"
                         /\ qlearn' = [qlearn EXCEPT !.blocked = blocked, !.moves = @ + 1,
                                                     !.path_taken = path_taken]
                    ELSE IF DOMAIN q[action] \ blocked = {}
                    THEN /\ pc' = pc
                         /\ qlearn' = [qlearn EXCEPT !.blocked = blocked, !.moves = @ + 1, !.at = "path",
                                                     !.path_taken = path_taken,
                                                     !.dead_end = TRUE]
                    ELSE /\ pc' = pc
                         /\ qlearn' = [qlearn EXCEPT !.blocked = blocked, !.moves = @ + 1,
                                                     !.path_taken = path_taken,
                                                     !.current_state = action]
    /\ UNCHANGED <<map, verdict, ttype, builder, naive, cutoff, dcmp, bfs>>

\* generate_optimal_mazes: the lines after get_path.
generate_optimal_mazes_return ==
    /\ pc = "qlearn"
    /\ qlearn.at = "path"
    /\ pc' = "qdone"
    /\ qlearn' = [qlearn EXCEPT
                    !.at = "returned",
                    !.result = IF qlearn.dead_end \/ qlearn.path_taken = {}
                               THEN << <<>> >>
                               ELSE <<SelectSeq(builder.coordinated_build_nodes,
                                                LAMBDA coords : coords \notin qlearn.path_taken)>>]
    /\ UNCHANGED <<map, verdict, ttype, builder, naive, cutoff, dcmp, bfs>>

NextQLearn ==
    \/ Validate
    \/ Construct
    \/ QLearnBuilder_init
    \/ train_agent_epoch
    \/ train_agent_step
    \/ get_path_start
    \/ get_path_step
    \/ generate_optimal_mazes_return

QLearnSpec == InitQLearn /\ [][NextQLearn]_vars

(***************************************************************************)
(* Reference notions the properties are stated with: reachability and hop  *)
(* counts by level sets, independent of the queue-based searches above.    *)
(***************************************************************************)

\* The grid with towers on the coordinates of a placement.
Blocked(ty, placement) ==
    [c \in DOMAIN ty |-> IF c \in placement THEN TTypeOccupied ELSE ty[c]]

\* Hops(level, seen, k, T, ...): the least number of hops, k or more, after
\* which a walk from the k-hop frontier `level` over traversable nodes stands on
\* a node of type T; NONE when there is none.
RECURSIVE Hops(_, _, _, _, _, _, _)
Hops(level, seen, k, T, ty, nodes, n) ==
    LET next == {d \in nodes \ seen :
                    /\ is_traversable(ty[d])
                    /\ \E c \in level : d \in neighbors(c, nodes, n)}
    IN IF next = {} THEN NONE
       ELSE IF \E d \in next : ty[d] = T THEN k + 1
       ELSE Hops(next, seen \cup next, k + 1, T, ty, nodes, n)

MinHops(start, T, ty, nodes, n) == Hops({start}, {start}, 0, T, ty, nodes, n)

Reaches(start, T, ty, nodes, n) == MinHops(start, T, ty, nodes, n) # NONE

SpawnsOf(ty) == {c \in DOMAIN ty : is_spawn(ty[c])}
ExitsOf(ty) == {c \in DOMAIN ty : is_exit(ty[c])}

\* Every spawn of the grid, dropped by the builder or not, reaches an exit.
EverySpawnReaches(ty, nodes, n) ==
    \A c \in SpawnsOf(ty) : Reaches(c, TTypeExit, ty, nodes, n)

\* The ascending distances of the builder's spawns with the placement built.
DistancesOf(placement) ==
    sort([i \in 1 .. Len(builder.spawn_nodes) |->
            MinHops(builder.spawn_nodes[i], TTypeExit, Blocked(map.tiles, placement),
                    Nodes, map.neighbor_count)])

Built == pc \in {"naive", "naive_done", "cutoff", "done"}
NaiveReturned == pc \in {"naive_done", "cutoff", "done"}
CutoffReturned == pc = "done"

(***************************************************************************)
(* Properties.                                                             *)
(***************************************************************************)

\* C1: for every validated grid and every ceiling, the pruned and the
\* exhaustive search end with equal Distances.  Violated: cut_off_route takes
\* any node on a shortest path whose type allows building, also one that
\* clear_single_paths removed from the build nodes.
C1_SameOptimum ==
    CutoffReturned => sort(cutoff.best_dists) = sort(naive.best_dists)

\* C2: with the coordinates of any returned placement occupied, every spawn of
\* the grid, also one dropped by clear_redundant_spawns, still reaches an exit.
\* Violated: the searches only measure the spawns the builder kept.
C2_EverySpawnStaysConnected ==
    /\ NaiveReturned =>
          \A i \in DOMAIN naive.best_tower_coords :
              EverySpawnReaches(Blocked(map.tiles, Range(naive.best_tower_coords[i])),
                                Nodes, map.neighbor_count)
    /\ CutoffReturned =>
          \A i \in DOMAIN cutoff.best_tower_coords :
              EverySpawnReaches(Blocked(map.tiles, Range(cutoff.best_tower_coords[i])),
                                Nodes, map.neighbor_count)

\* The combinations the exhaustive search ranges over: at most max_towers
\* build nodes, kept when every spawn of `spawns` still reaches an exit.
Candidates(spawns) ==
    {C \in SUBSET Range(builder.coordinated_build_nodes) :
        /\ Cardinality(C) <= builder.max_towers
        /\ \A c \in spawns :
              Reaches(c, TTypeExit, Blocked(map.tiles, C), Nodes, map.neighbor_count)}

\* The candidates no other candidate beats.
Best(cands) ==
    {C \in cands : \A D \in cands : ~list_gt(DistancesOf(D), DistancesOf(C))}

\* The list holds each member of `sets` once and nothing else.
ListsExactly(list, sets) ==
    /\ {Range(list[i]) : i \in DOMAIN list} = sets
    /\ Len(list) = Cardinality(sets)
    /\ \A i \in DOMAIN list : Len(list[i]) = Cardinality(Range(list[i]))

\* C3: the exhaustive search returns exactly the combinations of at most
\* max_towers build nodes that keep every spawn connected to an exit and whose
\* Distances are the greatest among them.  Violated through C2: a combination
\* that cuts off a dropped spawn is ranked and returned.
C3_NaiveReturnsTheBest ==
    NaiveReturned =>
        ListsExactly(naive.best_tower_coords, Best(Candidates(SpawnsOf(map.tiles))))

\* What the exhaustive search does return: the best of the combinations that
\* keep the builder's own spawns connected, each once, all with the Distances
\* the search ends with.
NaiveReturnsTheBestForKeptSpawns ==
    NaiveReturned =>
        /\ ListsExactly(naive.best_tower_coords,
                        Best(Candidates(Range(builder.spawn_nodes))))
        /\ \A i \in DOMAIN naive.best_tower_coords :
              DistancesOf(Range(naive.best_tower_coords[i])) = sort(naive.best_dists)

\* The derived bound, from the greatest hop count of the builder's spawns.
DerivedBound ==
    LET maxmin_distance ==
            Max({MinHops(builder.spawn_nodes[i], TTypeExit, map.tiles, Nodes,
                         map.neighbor_count) : i \in DOMAIN builder.spawn_nodes})
    IN Len(builder.coordinated_build_nodes)
       - MaxOf(maxmin_distance - Len(builder.removed)
               - Cardinality(coordinated_unbuildables(map.tiles)) + 1, 0)

\* C4: max_towers is the ceiling when one is given (0 included) and it is not
\* above the derived bound, the derived bound otherwise; no returned placement
\* has more than max_towers coordinates.
C4_MaxTowersHonoured ==
    /\ Built =>
          builder.max_towers =
              IF map.tower_limit # NONE /\ map.tower_limit <= DerivedBound
              THEN map.tower_limit
              ELSE DerivedBound
    /\ NaiveReturned =>
          \A i \in DOMAIN naive.best_tower_coords :
              Len(naive.best_tower_coords[i]) <= builder.max_towers
    /\ CutoffReturned =>
          \A i \in DOMAIN cutoff.best_tower_coords :
              Len(cutoff.best_tower_coords[i]) <= builder.max_towers

\* Both searches have returned for a map with ceiling 0 whose derived bound
\* would allow towers.
C4_Witness ==
    /\ CutoffReturned
    /\ map.tower_limit = 0
    /\ DerivedBound > 0
    /\ builder.max_towers = 0

\* The combinations of build nodes that keep the builder's spawns connected.
Feasible ==
    {C \in SUBSET Range(builder.coordinated_build_nodes) :
        \A c \in Range(builder.spawn_nodes) :
            Reaches(c, TTypeExit, Blocked(map.tiles, C), Nodes, map.neighbor_count)}

\* C5: without a ceiling, a combination of more than max_towers build nodes
\* that keeps the spawns connected never has greater Distances than every
\* combination of at most max_towers build nodes.
C5_BoundLosesNothing ==
    (Built /\ map.tower_limit = NONE) =>
        \A C \in Feasible :
            Cardinality(C) > builder.max_towers =>
                \E D \in Feasible :
                    /\ Cardinality(D) <= builder.max_towers
                    /\ ~list_gt(DistancesOf(C), DistancesOf(D))

\* Without a ceiling the bound is below the number of build nodes, and a
\* combination within the bound beats the empty one.
C5_Witness ==
    /\ NaiveReturned
    /\ map.tower_limit = NONE
    /\ 0 < builder.max_towers
    /\ builder.max_towers < Len(builder.coordinated_build_nodes)
    /\ list_gt(sort(naive.best_dists), DistancesOf({}))

\* C6: when a search has returned, every node has the type it had before the
\* search.  Violated: both searches make a node basic when they take a tower
\* off it, whatever its type was.
C6_TypesRestored ==
    (pc = "naive_done" \/ pc = "done") => ttype = map.tiles

Validated == pc # "validate"

\* A spawn without a walk to an exit, an exit without a walk to a spawn, over
\* the tiles divide_types keeps.
SpawnCutOff(tiles, n) ==
    \E c \in SpawnsOf(tiles) : ~Reaches(c, TTypeExit, tiles, divide_types(tiles), n)
ExitCutOff(tiles, n) ==
    \E c \in ExitsOf(tiles) : ~Reaches(c, TTypeSpawn, tiles, divide_types(tiles), n)

\* C7: validate_map reports the first failure of a fixed order: no spawn, then
\* no exit, then a spawn without a route, then an exit without a route; the
\* report does not depend on the order in which the node sets are iterated.
C7_FirstFailureInOrder ==
    Validated =>
        /\ verdict =
              IF SpawnsOf(map.tiles) = {} THEN "not enough spawns"
              ELSE IF ExitsOf(map.tiles) = {} THEN "not enough exits"
              ELSE IF SpawnCutOff(map.tiles, map.neighbor_count) THEN "a spawn is blocked"
              ELSE IF ExitCutOff(map.tiles, map.neighbor_count) THEN "an exit is blocked"
              ELSE "ok"
        /\ Cardinality(validate_map(map.tiles, map.neighbor_count)) = 1

\* A map in which a spawn and an exit are both cut off was validated: the
\* spawn is the one reported.
C7_Witness ==
    /\ Validated
    /\ SpawnsOf(map.tiles) # {} /\ ExitsOf(map.tiles) # {}
    /\ SpawnCutOff(map.tiles, map.neighbor_count)
    /\ ExitCutOff(map.tiles, map.neighbor_count)
    /\ verdict = "a spawn is blocked"

\* C8: a grid is accepted exactly when it has a spawn and an exit, every spawn
\* has a walk over traversable tiles to an exit and every exit has one to a
\* spawn.  Violated: divide_types leaves the path tiles out of the graph.
C8_AcceptsExactlyTheConnected ==
    Validated =>
        (verdict = "ok" <=>
            /\ SpawnsOf(map.tiles) # {}
            /\ ExitsOf(map.tiles) # {}
            /\ \A c \in SpawnsOf(map.tiles) :
                  Reaches(c, TTypeExit, map.tiles, Nodes, map.neighbor_count)
            /\ \A c \in ExitsOf(map.tiles) :
                  Reaches(c, TTypeSpawn, map.tiles, Nodes, map.neighbor_count))

\* The values of a list in ascending order, by counting.
Count(list, v) == Cardinality({i \in DOMAIN list : list[i] = v})
Ascending(list) ==
    CHOOSE asc \in [1 .. Len(list) -> Range(list)] :
        /\ \A i \in 1 .. Len(list) - 1 : asc[i] <= asc[i + 1]
        /\ \A v \in Range(list) : Count(asc, v) = Count(list, v)

\* x is lexicographically greater than y.
LexGreater(x, y) ==
    \E i \in 1 .. Len(x) :
        /\ \A j \in 1 .. i - 1 : j <= Len(y) /\ x[j] = y[j]
        /\ i > Len(y) \/ x[i] > y[i]

\* The same values in every order.
Reorderings(list) ==
    {other \in [1 .. Len(list) -> Range(list)] :
        \A v \in Range(list) : Count(other, v) = Count(list, v)}

\* C9: for Distances of equal length exactly one of a > b, b > a, a == b
\* holds; a >= b holds iff a > b or a == b; each outcome is the lexicographic
\* comparison of the ascending lists, whatever the order of the appends.
C9_TotalPreorderOnMultisets ==
    pc = "distances" =>
        LET a == dcmp.a
            b == dcmp.b
            greater == LexGreater(Ascending(a), Ascending(b))
            less == LexGreater(Ascending(b), Ascending(a))
            equal == Ascending(a) = Ascending(b)
        IN /\ Len(a) = Len(b) =>
                 /\ Distances_gt(a, b) \/ Distances_gt(b, a) \/ Distances_eq(a, b)
                 /\ ~(Distances_gt(a, b) /\ Distances_gt(b, a))
                 /\ ~(Distances_gt(a, b) /\ Distances_eq(a, b))
                 /\ ~(Distances_gt(b, a) /\ Distances_eq(a, b))
           /\ Distances_ge(a, b) <=> (Distances_gt(a, b) \/ Distances_eq(a, b))
           /\ \A other \in Reorderings(a) :
                 /\ Distances_gt(other, b) <=> greater
                 /\ Distances_gt(b, other) <=> less
                 /\ Distances_eq(other, b) <=> equal
                 /\ Distances_ge(other, b) <=> (greater \/ equal)
           /\ dcmp.op = "gt" => (dcmp.result <=> greater)
           /\ dcmp.op = "ge" => (dcmp.result <=> (greater \/ equal))
           /\ dcmp.op = "eq" => (dcmp.result <=> equal)

\* Two instances hold the same values, appended in different orders, one of
\* them not ascending, and compare equal.
C9_Witness ==
    /\ pc = "distances"
    /\ dcmp.op = "append"
    /\ Len(dcmp.a) = MaxDists
    /\ dcmp.a # dcmp.b
    /\ dcmp.a # Ascending(dcmp.a)
    /\ Distances_eq(dcmp.a, dcmp.b)
    /\ ~Distances_gt(dcmp.a, dcmp.b)

\* C10: get_shortest_distance_any from a spawn returns the least number of
\* hops to an exit over walks that enter traversable nodes only, None exactly
\* when there is no such walk, whatever the order of the neighbors;
\* get_distances is None exactly when some spawn has no walk, and holds one such
\* least hop count for every spawn otherwise.
C10_ShortestDistance ==
    pc = "bfs" =>
        /\ bfs.state = "returned" =>
              bfs.result = MinHops(bfs.starting_node, TTypeExit, ttype, Nodes,
                                   map.neighbor_count)
        /\ LET starting_nodes == SeqOf(SpawnsOf(ttype))
               dists == get_distances(starting_nodes, TTypeExit, ttype, Nodes,
                                      map.neighbor_count)
           IN /\ dists = NoneDists <=>
                    \E c \in SpawnsOf(ttype) :
                        ~Reaches(c, TTypeExit, ttype, Nodes, map.neighbor_count)
              /\ dists # NoneDists =>
                    /\ Len(dists) = Len(starting_nodes)
                    /\ \A i \in DOMAIN starting_nodes :
                          dists[i] = MinHops(starting_nodes[i], TTypeExit, ttype, Nodes,
                                             map.neighbor_count)

\* A search has returned 2 although an occupied or void neighbor of the
\* starting node lies next to an exit.
C10_Witness ==
    /\ pc = "bfs"
    /\ bfs.state = "returned"
    /\ bfs.result = 2
    /\ \E c \in neighbors(bfs.starting_node, Nodes, map.neighbor_count) :
          /\ ttype[c] \in {TTypeOccupied, TTypeVoid}
          /\ \E e \in neighbors(c, Nodes, map.neighbor_count) : is_exit(ttype[e])

\* HopsTo(level, seen, k, target, ...): the least number of hops, k or more,
\* after which a walk from the k-hop frontier `level` over traversable nodes
\* stands on the node `target`; NONE when there is none.
RECURSIVE HopsTo(_, _, _, _, _, _, _)
HopsTo(level, seen, k, target, ty, nodes, n) ==
    IF target \in level THEN k
    ELSE LET next == {d \in nodes \ seen :
                         /\ is_traversable(ty[d])
                         /\ \E c \in level : d \in neighbors(c, nodes, n)}
         IN IF next = {} THEN NONE
            ELSE HopsTo(next, seen \cup next, k + 1, target, ty, nodes, n)

HopsBetween(a, b, ty, nodes, n) == HopsTo({a}, {a}, 0, b, ty, nodes, n)

\* The nodes of type T at the least hop count d from start, and the nodes on
\* a walk of exactly d hops from start to one of them (both ends included).
NearestOf(start, T, ty, nodes, n) ==
    {e \in nodes : /\ ty[e] = T
                   /\ e # start
                   /\ HopsBetween(start, e, ty, nodes, n) # NONE
                   /\ HopsBetween(start, e, ty, nodes, n) = MinHops(start, T, ty, nodes, n)}

OnShortestWalks(start, T, ty, nodes, n) ==
    {c \in nodes :
        \E e \in NearestOf(start, T, ty, nodes, n) :
            /\ HopsBetween(start, c, ty, nodes, n) # NONE
            /\ HopsBetween(e, c, ty, nodes, n) # NONE
            /\ HopsBetween(start, c, ty, nodes, n) + HopsBetween(e, c, ty, nodes, n)
                  = MinHops(start, T, ty, nodes, n)}

\* C11: get_nodes_on_shortest_paths from a spawn of a reset graph returns the
\* least hop count d to an exit, and a node set whose members all lie on a walk
\* of exactly d hops to an exit at distance d and which holds every node
\* strictly inside such a walk, whatever the order of the neighbors.
\* Violated: the inner loop collects the paths of a dequeued exit before it
\* tests the distance, so the first node of distance d + 1 in the queue, when it
\* is an exit, adds its own predecessors.
C11_NodesOnShortestPaths ==
    (pc = "bfs" /\ bfs.state = "collected") =>
        LET start == bfs.starting_node
            d == MinHops(start, TTypeExit, ttype, Nodes, map.neighbor_count)
            on == OnShortestWalks(start, TTypeExit, ttype, Nodes, map.neighbor_count)
            ends == NearestOf(start, TTypeExit, ttype, Nodes, map.neighbor_count)
        IN /\ bfs.result = d
           /\ bfs.path_nodes \subseteq on
           /\ on \ (ends \cup {start}) \subseteq bfs.path_nodes

\* The Distances a search computes for the empty combination.
EmptyPlacementDists ==
    calculate_maze_distances(builder.spawn_nodes, map.tiles, <<>>, Nodes, map.neighbor_count)

\* Where the constructor has returned, the empty combination keeps every
\* spawn of the builder connected, its Distances are the least hop counts of
\* the unmodified grid with the maxmin distance as greatest, and a search that
\* has returned has a placement in its list.
ZeroPlacementWhereReturned ==
    /\ Built =>
          /\ EmptyPlacementDists # NoneDists
          /\ sort(EmptyPlacementDists) = DistancesOf({})
          /\ Max(Range(EmptyPlacementDists)) =
                get_maxmin_distance(builder.spawn_nodes, TTypeExit, map.tiles, Nodes,
                                    map.neighbor_count)
    /\ NaiveReturned =>
          /\ naive.best_tower_coords # <<>>
          /\ naive.best_dists # NoneDists
    /\ CutoffReturned =>
          /\ cutoff.best_tower_coords # <<>>
          /\ cutoff.best_dists # NoneDists

\* C12: for every validated grid both searches return a list with at least
\* one placement, and the Distances of the empty placement are the least hop
\* counts of the unmodified grid, the maxmin distance being their greatest.
\* Violated: on some validated grids MazeBuilder.__init__ never returns or
\* raises, so no search returns anything.
C12_ZeroPlacementReturned ==
    /\ verdict = "ok" => pc \notin {"hang", "raised"}
    /\ ZeroPlacementWhereReturned

\* The one-row grid [Spawn, Basic, Exit].
ThreeInARow == MapOf(<<<<TTypeSpawn, TTypeBasic, TTypeExit>>>>)

PlusDistance(placement) ==
    MinHops(<<0, 1>>, TTypeExit, Blocked(map.tiles, placement), Nodes, map.neighbor_count)

OnPlusWithBudgetOne == map.tiles = PlusMap /\ map.tower_limit = 1

IsCorridor ==
    /\ map.width = 1 \/ map.height = 1
    /\ LET tiles == [i \in 1 .. Len(SeqOf(Nodes)) |-> map.tiles[SeqOf(Nodes)[i]]]
           last == Len(tiles)
       IN /\ last >= 2
          /\ {tiles[1], tiles[last]} = {TTypeSpawn, TTypeExit}
          /\ \A i \in 2 .. last - 1 :
                /\ is_traversable(tiles[i])
                /\ ~is_spawn(tiles[i])
                /\ ~is_exit(tiles[i])

\* C15: on a corridor with one spawn and one exit at its ends, of any length,
\* the Q-learning search never raises and never dead-ends, whatever it chooses
\* and learns: the rollout ends on a goal coordinate and the result is [[]].
\* Violated: with the spawn next to the exit the only action of the spawn is
\* the exit, which is no state of the Q-table.
C15_CorridorNeverFails ==
    (IsCorridor /\ verdict = "ok") =>
        /\ pc # "raised"
        /\ ~qlearn.dead_end
        /\ qlearn.at \in {"path", "returned"} =>
              qlearn.path_taken \cap qlearn.goal_coords # {}
        /\ pc = "qdone" => qlearn.result = << <<>> >>

\* A rollout that reached a goal coordinate is answered with one placement:
\* the build nodes off the path, which leave the agent's spawn connected.
RolloutPlacement ==
    (pc = "qdone" /\ ~qlearn.dead_end) =>
        /\ Len(qlearn.result) = 1
        /\ Range(qlearn.result[1]) =
              Range(builder.coordinated_build_nodes) \ qlearn.path_taken
        /\ Len(qlearn.result[1]) = Cardinality(Range(qlearn.result[1]))
        /\ Reaches(builder.spawn_nodes[1], TTypeExit,
                   Blocked(map.tiles, Range(qlearn.result[1])), Nodes, map.neighbor_count)

\* C16: when the final rollout dead-ends, generate_optimal_mazes returns a
\* result without any placement and raises nothing; otherwise it returns one
\* placement, the build nodes off the path, which leaves the spawn connected.
\* Violated: after a dead end the code returns [[]], a list that holds the
\* empty placement.
C16_DeadEndReportsFailure ==
    /\ (pc = "qdone" /\ qlearn.dead_end) => qlearn.result = <<>>
    /\ (pc = "raised" /\ qlearn.at # "none") => ~qlearn.dead_end
    /\ RolloutPlacement

\* The combinations of nodes of `where` that keep the builder's spawns
\* connected to an exit.
KeepConnected(where) ==
    {C \in SUBSET where :
        \A c \in Range(builder.spawn_nodes) :
            Reaches(c, TTypeExit, Blocked(map.tiles, C), Nodes, map.neighbor_count)}

\* The traversable nodes that allow building, before clear_single_paths.
Buildables ==
    {c \in coordinated_traversables(map.tiles) : allow_building(map.tiles[c])}

BestDistances(cands) == {DistancesOf(C) : C \in Best(cands)}

\* C17: for every validated grid the greatest Distances of the combinations of
\* build nodes left by clear_single_paths equal the greatest Distances of the
\* combinations of any buildable nodes, among those that keep the spawns
\* connected.  Violated: a tower on a removed corridor node can lengthen the
\* way of a spawn that has a second exit behind the corridor.
C17_CorridorsKeepOptimum ==
    Built =>
        BestDistances(KeepConnected(Range(builder.coordinated_build_nodes)))
            = BestDistances(KeepConnected(Buildables))

\* C18: clear_single_paths returns on every grid, also when a corridor holds
\* unbuildable or non-traversable nodes or closes a cycle, and every removed
\* coordinate stands once in `removed`.  Violated: when the node ahead in the
\* while loop is unvisited, no spawn, no exit and does not allow building, the
\* body changes nothing and the loop never ends.
C18_CorridorWalkTerminates ==
    /\ pc # "hang"
    /\ Len(builder.removed) = Cardinality(Range(builder.removed))
    /\ Range(builder.removed) \cap Range(builder.coordinated_build_nodes) = {}

\* Where clear_single_paths returns, every removed coordinate stands once
\* in `removed` and is no build node any more.
RemovedOnce ==
    pc # "hang" =>
        /\ Len(builder.removed) = Cardinality(Range(builder.removed))
        /\ Range(builder.removed) \cap Range(builder.coordinated_build_nodes) = {}

\* The ascending distances of every spawn of the grid with the placement
\* built.
DistancesOfAll(placement) ==
    LET spawns == SeqOf(SpawnsOf(map.tiles))
    IN sort([i \in 1 .. Len(spawns) |->
               MinHops(spawns[i], TTypeExit, Blocked(map.tiles, placement), Nodes,
                       map.neighbor_count)])

\* The candidates no other candidate beats when every spawn counts.
BestOfAll(cands) ==
    {C \in cands : \A D \in cands : ~list_gt(DistancesOfAll(D), DistancesOfAll(C))}

\* C19: for every validated grid, a combination of at most max_towers build
\* nodes is feasible and optimal for the spawns clear_redundant_spawns keeps
\* exactly when it is feasible and optimal for all spawns of the grid.
\* Violated: a cluster can lose all its members, or the only members whose way
\* a tower cuts or lengthens.
C19_SpawnReductionKeepsOptimum ==
    Built =>
        Best(Candidates(Range(builder.spawn_nodes)))
            = BestOfAll(Candidates(SpawnsOf(map.tiles)))

\* A step of cut_off_route that places a tower: the call stack grows.
PlacesTower == pc = "cutoff" /\ pc' = "cutoff" /\ Len(cutoff'.stack) = Len(cutoff.stack) + 1

\* The coordinates the step places the tower on.
PlacedNode == Last(Last(cutoff'.stack).combination)

OnCurrentShortestPath(node) ==
    \E c \in Range(builder.spawn_nodes) :
        node \in OnShortestWalks(c, TTypeExit, ttype, Nodes, map.neighbor_count)

NotProcessedAbove(node) ==
    \A count \in Top.towers_left + 1 .. builder.max_towers :
        node \notin cutoff.processed_coordinates[count]

\* C20: every coordinate cut_off_route places a tower on is then on a
\* shortest walk of a spawn to its nearest exit, is a build node, and is in no
\* processed set of a level with more towers left.  Violated: the candidates
\* are filtered by allow_building, not by coordinated_build_nodes, so a node
\* that clear_single_paths removed gets a tower.
C20_PlacementsAreEligible ==
    [][PlacesTower =>
          /\ OnCurrentShortestPath(PlacedNode)
          /\ PlacedNode \in Range(builder.coordinated_build_nodes)
          /\ NotProcessedAbove(PlacedNode)]_vars

\* The part of C20 about the processed sets.
PlacementsNotProcessedAbove == [][PlacesTower => NotProcessedAbove(PlacedNode)]_vars

\* The part of C20 about the shortest paths.
PlacementsOnShortestPaths == [][PlacesTower => OnCurrentShortestPath(PlacedNode)]_vars


(***************************************************************************)
(* The order of insertion in the pruned search.                            *)
(***************************************************************************)
NoTwoOrders(list) ==
    \A i, j \in DOMAIN list : Range(list[i]) = Range(list[j]) => i = j

\* C21: during one run of the pruned search no two calls of cut_off_route
\* are made with the same set of coordinates, and the list of best
\* placements never holds two placements that are equal as sets.
C21_NoTwoInsertionOrders ==
    pc \in {"cutoff", "done"} =>
        /\ NoTwoOrders(cutoff.calls)
        /\ NoTwoOrders(cutoff.best_tower_coords)

\* The search has returned after calls with a tower on a alone, on b alone
\* and on both, and it returns a placement of two towers.
C21_Witness ==
    /\ pc = "done"
    /\ \E a, b \in Nodes :
          /\ a # b
          /\ {<<a>>, <<b>>, <<a, b>>} \subseteq Range(cutoff.calls)
    /\ \E i \in DOMAIN cutoff.best_tower_coords : Len(cutoff.best_tower_coords[i]) = 2


(***************************************************************************)
(* The recursion of the pruned search.                                     *)
(***************************************************************************)
\* The frame i of the stack is a call i - 1 calls deep: it has i - 1 towers
\* and max_towers - (i - 1) towers left, which is not negative.
BudgetDecreases ==
    pc = "cutoff" =>
        /\ Len(cutoff.stack) <= builder.max_towers + 1
        /\ \A i \in DOMAIN cutoff.stack :
              /\ cutoff.stack[i].towers_left = builder.max_towers - (i - 1)
              /\ cutoff.stack[i].towers_left >= 0
              /\ Len(cutoff.stack[i].combination) = i - 1

\* The running call can take a step: it is at its first line, in its for
\* loop or at a return.
SearchCanStep ==
    pc = "cutoff" =>
        /\ cutoff.stack # <<>>
        /\ Top.at \in {"enter", "loop", "return"}

\* What a call has still to do: a call at its first line more than any call
\* in its loop, a call in its loop one more than its candidates left.
Work(frame) ==
    CASE frame.at = "enter" -> Cardinality(Nodes) + 3
      [] frame.at = "loop" -> Cardinality(frame.nodes) + 2
      [] OTHER -> 1

Works(stack) == [i \in DOMAIN stack |-> Work(stack[i])]

\* a is before b in the lexicographic order, a proper prefix being before.
LexLess(a, b) ==
    \E i \in DOMAIN b :
        /\ \A j \in 1 .. (i - 1) : j <= Len(a) /\ a[j] = b[j]
        /\ \/ Len(a) = i - 1
           \/ i <= Len(a) /\ a[i] < b[i]

\* C22: every recursive call of cut_off_route has one tower less left than
\* its caller, no call has fewer than 0 towers left, the recursion is never
\* deeper than max_towers, and the search terminates: the running call can
\* always take a step, and every step either ends the search or makes the
\* work left on the stack smaller in a well-founded order.
C22_PrunedSearchTerminates ==
    /\ [](BudgetDecreases /\ SearchCanStep)
    /\ [][pc = "cutoff" =>
            \/ pc' = "done"
            \/ pc' = "cutoff" /\ LexLess(Works(cutoff'.stack), Works(cutoff.stack))]_vars

\* The search is three calls deep with no tower left.
C22_Witness ==
    /\ pc = "cutoff"
    /\ Len(cutoff.stack) = 4
    /\ Top.towers_left = 0
    /\ Top.at = "return"


(***************************************************************************)
(* The episodes of the Q-learning search.                                  *)
(***************************************************************************)
\* A pass of the while loop of train_agent or of get_path.
EpisodeStep ==
    /\ pc = "qlearn"
    /\ qlearn.at \in {"epoch", "rollout"}
    /\ <<pc, qlearn>>' # <<pc, qlearn>>

\* The pass has called move.
Moved == qlearn'.moves = qlearn.moves + 1

\* The coordinate the agent has moved to: move blocks every other action of
\* the state it leaves.
MovedTo == CHOOSE a \in DOMAIN qlearn.q[qlearn.current_state] : a \notin qlearn'.blocked

\* The episode or the rollout goes on after the pass.
GoesOn == pc' = "qlearn" /\ qlearn'.at = qlearn.at

\* C23: an episode or the rollout makes at most as many moves as the Q-table
\* has states; choose_action is only called on a state with an available
\* action; the agent only moves to states of the Q-table, never onto an exit;
\* and the episode ends exactly when the agent lands on a goal coordinate or
\* on a coordinate with no unblocked action.
C23_EpisodesEndOnGoalOrDeadEnd ==
    /\ [](qlearn.moves <= Cardinality(DOMAIN qlearn.q))
    /\ [][EpisodeStep =>
            /\ available_actions(qlearn.q, qlearn.blocked, qlearn.current_state) # {}
            /\ Moved
            /\ MovedTo \in DOMAIN qlearn.q
            /\ ~is_exit(ttype[MovedTo])
            /\ GoesOn <=>
                 ~(\/ MovedTo \in qlearn.goal_coords
                   \/ available_actions(qlearn.q, qlearn'.blocked, MovedTo) = {})]_vars

\* The parts of C23 that do not depend on where the spawn is: the number of
\* moves, and choose_action is only called on a state with an action.
MovesAreBounded ==
    /\ [](qlearn.moves <= Cardinality(DOMAIN qlearn.q))
    /\ [][EpisodeStep =>
            /\ available_actions(qlearn.q, qlearn.blocked, qlearn.current_state) # {}
            /\ Moved]_vars

\* With no exit beside the spawn the agent stays on the states of the table
\* and the episode ends exactly on a goal coordinate or a dead end.
StaysOnStatesAwayFromExits ==
    [][EpisodeStep /\ builder.spawn_nodes[1] \notin qlearn.goal_coords =>
            /\ MovedTo \in DOMAIN qlearn.q
            /\ GoesOn <=>
                 ~(\/ MovedTo \in qlearn.goal_coords
                   \/ available_actions(qlearn.q, qlearn'.blocked, MovedTo) = {})]_vars


\* An episode of train_agent or the rollout of get_path begins.
EpisodeBegins ==
    /\ pc = "qlearn"
    /\ qlearn.at = "train"
    /\ qlearn'.at \in {"epoch", "rollout"}

\* C24: within an episode the blocked set only grows; after a move from S to
\* A it contains S and every action of S but A; the agent never moves to a
\* blocked coordinate, so that the coordinate it stands on is never blocked
\* and the coordinates it has left all are; blocked is empty when an episode
\* or the rollout begins.
C24_BlockedOnlyGrows ==
    /\ [](pc = "qlearn" /\ qlearn.at \in {"epoch", "rollout"} =>
            /\ qlearn.current_state \notin qlearn.blocked
            /\ qlearn.path_taken \ {qlearn.current_state} \subseteq qlearn.blocked)
    /\ [][/\ EpisodeBegins => qlearn'.blocked = {}
          /\ EpisodeStep =>
               /\ qlearn.blocked \subseteq qlearn'.blocked
               /\ Moved
               /\ MovedTo \notin qlearn.blocked
               /\ MovedTo \notin qlearn'.blocked
               /\ qlearn'.blocked =
                     qlearn.blocked
                         \cup ((DOMAIN qlearn.q[qlearn.current_state]
                                    \cup {qlearn.current_state}) \ {MovedTo})]_vars

\* Two moves into an episode the blocked set holds the two coordinates the
\* agent has left and a sibling action it did not take.
C24_Witness ==
    /\ pc = "qlearn"
    /\ qlearn.at = "epoch"
    /\ qlearn.moves = 2
    /\ Cardinality(qlearn.blocked) > 2


(***************************************************************************)
(* The graph Window.create_maze builds.                                    *)
(***************************************************************************)
\* The cells of the grid at the 4 or 8 offsets of c.
CellsAround(c) ==
    {d \in DOMAIN map.tiles :
        \E delta \in NEIGHBOR_DELTAS(map.neighbor_count) :
            d = <<c[1] + delta[1], c[2] + delta[2]>>}

\* C25: in the graph handed to the search every node is a traversable cell,
\* a node's neighbors are exactly the traversable cells at the 4 or 8
\* offsets, so that no void or occupied cell is a node or a neighbor, and no
\* node is its own neighbor.
C25_OnlyTraversableNodes ==
    Built =>
        \A c \in Nodes :
            /\ is_traversable(map.tiles[c])
            /\ neighbors(c, Nodes, map.neighbor_count) =
                   {d \in CellsAround(c) : is_traversable(map.tiles[d])}
            /\ c \notin neighbors(c, Nodes, map.neighbor_count)

\* What does hold of the graph: a node for every cell of the grid, its
\* neighbors the cells at the offsets, itself not among them; and the graph
\* the validator builds for itself has traversable nodes only.
GraphOfAllCells ==
    /\ \A c \in Nodes :
          /\ neighbors(c, Nodes, map.neighbor_count) = CellsAround(c)
          /\ c \notin neighbors(c, Nodes, map.neighbor_count)
    /\ \A c \in divide_types(map.tiles) : is_traversable(map.tiles[c])


(***************************************************************************)
(* The spawns clear_redundant_spawns keeps.                                *)
(***************************************************************************)
\* The spawns joined to those of S by steps between neighboring spawns.
RECURSIVE SpawnCluster(_)
SpawnCluster(S) ==
    LET more == {d \in SpawnsOf(map.tiles) \ S :
                    \E c \in S : d \in neighbors(c, Nodes, map.neighbor_count)}
    IN IF more = {} THEN S ELSE SpawnCluster(S \cup more)

\* MazeBuilder.__init__ has gone past clear_redundant_spawns.
SpawnsCleared == verdict = "ok" /\ pc \notin {"validate", "construct", "hang"}

\* C28: clear_redundant_spawns leaves a spawn of every cluster of adjacent
\* spawns in spawn_nodes, with 4 and with 8 neighbors, so that spawn_nodes is
\* never empty.
C28_SpawnSetNeverEmptied ==
    SpawnsCleared =>
        /\ builder.spawn_nodes # <<>>
        /\ \A c \in SpawnsOf(map.tiles) :
              SpawnCluster({c}) \cap Range(builder.spawn_nodes) # {}

\* What does hold: a spawn with no spawn beside it is kept, and spawn_nodes
\* holds spawns of the grid only, each once.
LoneSpawnsAreKept ==
    SpawnsCleared =>
        /\ \A c \in SpawnsOf(map.tiles) :
              SpawnCluster({c}) = {c} => c \in Range(builder.spawn_nodes)
        /\ Range(builder.spawn_nodes) \subseteq SpawnsOf(map.tiles)
        /\ Cardinality(Range(builder.spawn_nodes)) = Len(builder.spawn_nodes)


(***************************************************************************)
(* The range of max_towers.                                                *)
(***************************************************************************)
\* max_towers and the derived bound are between 0 and the number of build
\* nodes, and the build nodes, the removed nodes and the unbuildable nodes
\* together are the traversable nodes.
MaxTowersInRange ==
    /\ 0 <= builder.max_towers
    /\ builder.max_towers <= Len(builder.coordinated_build_nodes)
    /\ 0 <= DerivedBound
    /\ DerivedBound <= Len(builder.coordinated_build_nodes)
    /\ Range(builder.coordinated_build_nodes) \cup Range(builder.removed)
           \cup coordinated_unbuildables(map.tiles) = coordinated_traversables(map.tiles)

\* C26: on every validated grid, with a ceiling of 0 or more or none,
\* calculate_max_towers sets max_towers to a number from 0 to the number of
\* build nodes, and the derived bound is not negative.
C26_MaxTowersInRange ==
    SpawnsCleared => pc # "raised" /\ MaxTowersInRange

\* Where calculate_max_towers returns, max_towers is in the range.
MaxTowersInRangeWhereSet == Built => MaxTowersInRange


(***************************************************************************)
(* The processed coordinates of the levels below a call.                   *)
(***************************************************************************)
\* The running call of cut_off_route is about to return.
ReturnsNow ==
    /\ pc = "cutoff"
    /\ \/ Top.at = "return"
       \/ Top.at = "loop" /\ \A node \in Top.nodes : ~allow_building(ttype[node])

\* C27: when a call cut_off_route(combination, L) returns, the processed
\* coordinates of every level below L are empty; and a call begins with
\* nothing processed at its own level and below, so that what one branch
\* has recorded removes no candidate in the next.
C27_LowerLevelsAreCleared ==
    /\ ReturnsNow =>
          \A k \in DOMAIN cutoff.processed_coordinates :
              k < Top.towers_left => cutoff.processed_coordinates[k] = {}
    /\ pc = "cutoff" /\ Top.at = "enter" =>
          \A k \in DOMAIN cutoff.processed_coordinates :
              k <= Top.towers_left => cutoff.processed_coordinates[k] = {}

\* A call with two or more towers left is about to return after a call two
\* towers deeper than itself was made below it.
C27_Witness ==
    /\ ReturnsNow
    /\ Top.towers_left >= 2
    /\ Top.at = "loop"
    /\ \E i \in DOMAIN cutoff.calls :
          /\ Len(cutoff.calls[i]) >= Len(Top.combination) + 2
          /\ SubSeq(cutoff.calls[i], 1, Len(Top.combination)) = Top.combination

\* Every item of list is there once.
NoRepeats(list) == \A i, j \in DOMAIN list : list[i] = list[j] => i = j

BfsUnderWay == pc = "bfs" /\ bfs.state \in {"running", "returned", "searching", "finished",
                                            "blocked"}

\* C29: in get_shortest_distance_any and in get_nodes_on_shortest_paths no put
\* finds the queue of capacity node_count - 1 full, so the search never
\* blocks: within one call every node put in the queue is traversable and is
\* put there at most once, and the starting node has left the queue before
\* any other node is put in it.
C29_QueueNeverFull ==
    BfsUnderWay =>
        /\ bfs.state # "blocked"
        /\ bfs.maxsize > 0 => Len(bfs.queue) <= bfs.maxsize
        /\ NoRepeats(bfs.puts)
        /\ Range(bfs.puts) \subseteq coordinated_traversables(ttype)
        /\ Len(bfs.puts) > 1 => bfs.starting_node \notin Range(bfs.queue)

\* A pass of get_shortest_distance_any has filled the queue to its capacity:
\* every other traversable node of the grid is a neighbor of the spawn.
C29_Witness ==
    /\ pc = "bfs"
    /\ bfs.state = "running"
    /\ bfs.maxsize >= 2
    /\ Len(bfs.queue) = bfs.maxsize
    /\ Len(bfs.puts) = bfs.maxsize + 1

\* The same in get_nodes_on_shortest_paths, where exits are queued too.
PathsQueueFilled ==
    /\ pc = "bfs"
    /\ bfs.state = "searching"
    /\ bfs.maxsize >= 2
    /\ Len(bfs.queue) = bfs.maxsize
    /\ \E i \in DOMAIN bfs.queue : ttype[bfs.queue[i]] = TTypeExit

\* validate_map returns on the grid with the placement built.
PassesValidation(placement) ==
    validate_map(Blocked(map.tiles, placement), map.neighbor_count) = {"ok"}

\* C30: for every validated grid, the grid with any placement built that the
\* exhaustive or the pruned search returns passes map validation again: every
\* spawn reaches an exit and no exit is cut off from every spawn.
\* Violated: the searches measure only the way from each spawn to its nearest
\* exit; a tower that cuts another exit off changes no distance and is
\* returned with the best placements.
C30_PlacementsPassValidation ==
    /\ NaiveReturned =>
          \A i \in DOMAIN naive.best_tower_coords :
              PassesValidation(Range(naive.best_tower_coords[i]))
    /\ CutoffReturned =>
          \A i \in DOMAIN cutoff.best_tower_coords :
              PassesValidation(Range(cutoff.best_tower_coords[i]))

\* What the searches do keep: with a returned placement built every spawn the
\* builder kept reaches an exit.
KeptSpawnsStayConnected ==
    /\ NaiveReturned =>
          \A i \in DOMAIN naive.best_tower_coords :
              \A c \in Range(builder.spawn_nodes) :
                  Reaches(c, TTypeExit, Blocked(map.tiles, Range(naive.best_tower_coords[i])),
                          Nodes, map.neighbor_count)
    /\ CutoffReturned =>
          \A i \in DOMAIN cutoff.best_tower_coords :
              \A c \in Range(builder.spawn_nodes) :
                  Reaches(c, TTypeExit, Blocked(map.tiles, Range(cutoff.best_tower_coords[i])),
                          Nodes, map.neighbor_count)

====
